---------------------------- MODULE Spec2Model ----------------------------
(***************************************************************************)
(* Wobbly Tower: the interaction and judgment layer of the tower-stacking  *)
(* game (src/App.tsx, src/components/GameScene.tsx, constants in           *)
(* src/unnamed/part_000).                                                  *)
(*                                                                         *)
(* Units.  Lengths of the physics world are in hundredths (0.5 -> 50).     *)
(* Up-vector dot products are in thousandths (0.866 -> 866).  The camera    *)
(* state is in fixed point too: angles in 1e-5 rad (0.015 -> 1500),        *)
(* radius and look-at target in thousandths (12 -> 12000), unit vectors in *)
(* thousandths; screen coordinates are whole pixels.                       *)
(*                                                                         *)
(* React.  A setState call only queues the new value; closures and refs    *)
(* see it after the next render and its effects.  Every piece of React     *)
(* state is therefore a pair: the variable named as in the source holds    *)
(* the latest value set, and a ...Ref / ...Closure / ...Rendered variable  *)
(* holds what the handlers attached by the last commit read.  Commit is    *)
(* one render together with its effects.                                   *)
(***************************************************************************)
EXTENDS Integers, Sequences, FiniteSets

VARIABLES
  \* ---- App.tsx state (latest value set) ----
  isGameOver,                  \* App.tsx:26
  currentScore,                \* App.tsx:17
  highScore,                   \* App.tsx:18
  storedHighScore,             \* localStorage 'wobblyTowerHighScore'
  selectedBlockDefinition,     \* App.tsx:23
  nextBlockDefinition,         \* App.tsx:24
  gameKey,                     \* App.tsx:27
  \* ---- what the App handlers held by the scene's refs captured ----
  highScoreClosure,            \* highScore seen by onGameOverRef.current
  nextBlockDefinitionClosure,  \* nextBlockDefinition seen by onBlockSuccessfullyPlacedRef.current
  \* ---- GameScene.tsx instance ----
  mountedKey,                  \* key of the mounted GameScene instance
  isSceneReady,                \* GameScene.tsx:118 (latest value set)
  isSceneReadyRendered,        \* isSceneReady of the last commit (closures, effect deps)
  canAddBlock,                 \* GameScene.tsx:119 (latest value set)
  canAddBlockClosure,          \* canAddBlock captured by the attached internalAddBlock
  cooldownTimers,              \* pending setTimeout(() => setCanAddBlock(true), 200)
  isGameOverRef,               \* GameScene.tsx:103
  blockToPlaceRef,             \* GameScene.tsx:104
  ghostBlockXOffset,           \* GameScene.tsx:98 (latest value set)
  ghostBlockYRotation,         \* GameScene.tsx:99 (latest value set)
  ghostBlockXOffsetProxyRef,   \* GameScene.tsx:147
  ghostBlockYRotationProxyRef, \* GameScene.tsx:148
  ghostBlockRef,               \* GameScene.tsx:96: [present |-> non-null, y |-> mesh position.y]
  animationFrameIdRef,         \* GameScene.tsx:94: TRUE iff the ref holds a request id
  physicsObjectsRef,           \* GameScene.tsx:93
  stabilityIndicatorColor,     \* material colour of stabilityIndicatorRef.current
  maxAchievedHeightInGameRef,  \* GameScene.tsx:107
  currentHighestBlockYRef,     \* GameScene.tsx:108
  \* ---- TowerState of the last tick (locals of animate) ----
  anyBlockFallenOffWorld,
  anyBlockTippedOverGameEnd,
  unstableBlockCountForWarning,
  \* ---- camera gesture controller ----
  cameraStateRef,              \* GameScene.tsx:123
  touchStateRef,               \* GameScene.tsx:133 (lastTouchX2/Y2 are never read: left out)
  cameraForward,               \* horizontal view direction of cameraRef.current (last render)
  touches,                     \* event.touches of the latest touch event (the fingers down)
  \* ---- observation of the callbacks (history) ----
  gameOverCalls,               \* onGameOver invocations by the mounted instance (saturating)
  blockPlacedCalls,            \* onBlockSuccessfullyPlaced invocations by the mounted instance
  lastTickFired,               \* the last tick invoked onGameOver
  lastFinalScore,              \* argument of the latest onGameOver, -1 if none
  maxPublishedScore,           \* largest score passed to onScoreUpdate by the mounted instance
  maxPublishedAtGameOver,      \* maxPublishedScore when onGameOver was last invoked
  maxReportedFinalScore,       \* history: the greatest of the startup high score and the onGameOver arguments
  writeWithoutExcess,          \* history: localStorage was written a value not above the stored one
  pendingAnimationFrames,      \* requestAnimationFrame callbacks requested and neither run nor cancelled
  contactMaterials             \* worldRef.current.contactmaterials, in the order they were added

gameVars == <<isGameOver, currentScore, highScore, storedHighScore,
              selectedBlockDefinition, nextBlockDefinition, gameKey,
              highScoreClosure, nextBlockDefinitionClosure,
              mountedKey, isSceneReady, isSceneReadyRendered, canAddBlock,
              canAddBlockClosure, cooldownTimers, isGameOverRef, blockToPlaceRef,
              ghostBlockXOffset, ghostBlockYRotation, ghostBlockXOffsetProxyRef,
              ghostBlockYRotationProxyRef, ghostBlockRef, animationFrameIdRef,
              physicsObjectsRef, stabilityIndicatorColor,
              maxAchievedHeightInGameRef, currentHighestBlockYRef,
              anyBlockFallenOffWorld, anyBlockTippedOverGameEnd,
              unstableBlockCountForWarning,
              gameOverCalls, blockPlacedCalls, lastTickFired, lastFinalScore,
              maxPublishedScore, maxPublishedAtGameOver,
              maxReportedFinalScore, writeWithoutExcess,
              pendingAnimationFrames, contactMaterials>>

cameraVars == <<cameraStateRef, touchStateRef, cameraForward, touches>>

vars == <<gameVars, cameraVars>>

----------------------------------------------------------------------------
(* Bounds of the model *)

MaxBlocks == 2        \* placements explored per game
MaxRestarts == 1      \* restarts explored
MaxCalls == 2         \* gameOverCalls saturates here
MaxTheta == 200000    \* |theta| explored (the code never wraps theta)
MaxLookAt == 2500     \* |lookAt.x|, |lookAt.z| explored
MaxDistance == 200    \* finger distances explored, in pixels
MaxTargets == 2       \* placed bodies the Stability Evaluator is explored with
MaxGhostSteps == 1    \* steps the ghost is moved off the centre, either way
MaxLifecycleBlocks == 1  \* blocks placed per game where games are restarted
MaxContactBlocks == 3    \* blocks placed where only the placements are followed

(* Program constants (src/unnamed/part_000 is constants.ts) *)

GROUND_LEVEL == 0
BLOCK_SPAWN_HEIGHT_OFFSET == 20
GAME_OVER_FALL_THRESHOLD_Y == -500
FALLEN_BLOCK_DOT_THRESHOLD == 500
TOWER_INSTABILITY_WARNING_DOT_THRESHOLD_BelowTipOver == FALLEN_BLOCK_DOT_THRESHOLD - 300
TOWER_INSTABILITY_WARNING_DOT_THRESHOLD == 866
GHOST_BLOCK_X_MOVEMENT_STEP == 20
GHOST_BLOCK_ROTATION_STEP == 26180       \* PI / 12, in 1e-5 rad
GHOST_BLOCK_FINE_ROTATION_STEP == 8727   \* PI / 36, in 1e-5 rad
CAMERA_MIN_ZOOM_DISTANCE == 3000
CAMERA_MAX_ZOOM_DISTANCE == 35000
CAMERA_ZOOM_SPEED == 15
CAMERA_MIN_POLAR_ANGLE == 8727
CAMERA_MAX_POLAR_ANGLE == 153589
CAMERA_ROTATION_SPEED_X == 1500
CAMERA_ROTATION_SPEED_Y == 1500
PI == 314159
pinchThreshold == 2

\* CAMERA_PRESET_FRONT / _TOP / _SIDE: lookAtYFactor is in tenths
CAMERA_PRESET_FRONT ==
  [phi |-> 125664, theta |-> 157080, radius |-> 12000, lookAtYFactor |-> 4,
   lookAtX |-> 0, lookAtZ |-> 0]
CAMERA_PRESET_TOP ==
  [phi |-> 1000, theta |-> 0, radius |-> 18000, lookAtY |-> 1000,
   lookAtX |-> 0, lookAtZ |-> 0]
CAMERA_PRESET_SIDE ==
  [phi |-> 125664, theta |-> 0, radius |-> 12000, lookAtYFactor |-> 4,
   lookAtX |-> 0, lookAtZ |-> 0]

\* BlockShapeType (types.ts:5-10)
BlockShapeType == {"CUBE_S", "RECT_TALL", "RECT_WIDE", "CYLINDER_S"}

\* a definition no entry of BLOCK_DEFINITIONS has: untyped data whose shape
\* kind is neither 'Box' nor 'Cylinder', with dimensions 1 x 0.25 x 0.5
MalformedDefinition == "MALFORMED"

\* BLOCK_DEFINITIONS[type].shape
Shape(type) ==
  CASE type = "CYLINDER_S" -> "Cylinder"
    [] type = MalformedDefinition -> "Cone"
    [] OTHER -> "Box"

\* BLOCK_DEFINITIONS[type].dimensions.x: half width, or radius of a cylinder
DimensionsX(type) ==
  CASE type = "CUBE_S"     -> 50
    [] type = "RECT_TALL"  -> 25
    [] type = "RECT_WIDE"  -> 100
    [] type = "CYLINDER_S" -> 40
    [] type = MalformedDefinition -> 100

\* BLOCK_DEFINITIONS[type].dimensions.z: half depth, or the segment count 16
\* of a cylinder
DimensionsZ(type) ==
  CASE type = "CUBE_S"     -> 50
    [] type = "RECT_TALL"  -> 25
    [] type = "RECT_WIDE"  -> 50
    [] type = "CYLINDER_S" -> 1600
    [] type = MalformedDefinition -> 50

\* PLACEMENT_STABILITY_*_THRESHOLD_*, in tenths
PLACEMENT_STABILITY_GREEN_THRESHOLD_BOX == 4
PLACEMENT_STABILITY_YELLOW_THRESHOLD_BOX == 8
PLACEMENT_STABILITY_GREEN_THRESHOLD_CYLINDER == 3
PLACEMENT_STABILITY_YELLOW_THRESHOLD_CYLINDER == 7

\* BLOCK_DEFINITIONS[type].dimensions.y (constants.ts:7,17,27,37)
DimensionsY(type) ==
  CASE type = "CUBE_S"     -> 50
    [] type = "RECT_TALL"  -> 100
    [] type = "RECT_WIDE"  -> 25
    [] type = "CYLINDER_S" -> 75
    [] type = MalformedDefinition -> 25

\* createThreeGeometry: the mesh geometry of a definition; an unknown shape
\* kind is logged and gets the unit box
CreateThreeGeometry(def) ==
  CASE Shape(def) = "Box" ->
         [kind |-> "BoxGeometry", width |-> DimensionsX(def) * 2,
          height |-> DimensionsY(def) * 2, depth |-> DimensionsZ(def) * 2]
    [] Shape(def) = "Cylinder" ->
         [kind |-> "CylinderGeometry", radiusTop |-> DimensionsX(def),
          radiusBottom |-> DimensionsX(def), height |-> DimensionsY(def) * 2,
          radialSegments |-> DimensionsZ(def)]
    [] OTHER -> [kind |-> "BoxGeometry", width |-> 100, height |-> 100, depth |-> 100]

\* a shape creation that throws on an unknown shape kind
CreateCannonShape_Raises(def) ==
  CASE Shape(def) = "Box" ->
         [kind |-> "Box", halfExtentsX |-> DimensionsX(def),
          halfExtentsY |-> DimensionsY(def), halfExtentsZ |-> DimensionsZ(def)]
    [] Shape(def) = "Cylinder" ->
         [kind |-> "Cylinder", radiusTop |-> DimensionsX(def),
          radiusBottom |-> DimensionsX(def), height |-> DimensionsY(def) * 2,
          numSegments |-> DimensionsZ(def)]
    [] OTHER -> [kind |-> "raised"]

\* createCannonShape: the collision shape of a definition; an unknown shape
\* kind is logged and gets the box of half extents 0.5
CreateCannonShape(def) ==
  CASE Shape(def) = "Box" ->
         [kind |-> "Box", halfExtentsX |-> DimensionsX(def),
          halfExtentsY |-> DimensionsY(def), halfExtentsZ |-> DimensionsZ(def)]
    [] Shape(def) = "Cylinder" ->
         [kind |-> "Cylinder", radiusTop |-> DimensionsX(def),
          radiusBottom |-> DimensionsX(def), height |-> DimensionsY(def) * 2,
          numSegments |-> DimensionsZ(def)]
    [] OTHER -> [kind |-> "Box", halfExtentsX |-> 50, halfExtentsY |-> 50,
                 halfExtentsZ |-> 50]

\* an exception thrown by a creation step leaves internalAddBlock at once
CreationRaised(def) ==
  CreateThreeGeometry(def).kind = "raised" \/ CreateCannonShape(def).kind = "raised"

(* Inputs *)

\* outcomes of Math.random explored in getRandomBlockDefinition
RandomTypes == {"RECT_TALL", "CYLINDER_S"}
\* body.position.y and up-vector dot the physics step may leave a body with
PosYs == {-600, 100}
Dots == {300, 700, 900}
\* values localStorage may hold at startup
StoredScores == {175}

\* mouse events explored: button and pointer position
MouseButtons == {0, 2}
MousePoints == {[clientX |-> 0, clientY |-> 0], [clientX |-> 60, clientY |-> 60]}
\* wheel events explored: deltaY
WheelDeltas == {-1200, 1200}
\* the preset buttons
CameraPresets == {"front", "top", "side"}
\* touch lists explored: for two fingers a wide pair, a narrow pair about
\* the same midpoint, and a slanted pair as far apart as the wide one with
\* its midpoint 40 pixels to the right and 40 pixels down
OneFinger ==
  { <<[clientX |-> 0, clientY |-> 0]>>, <<[clientX |-> 80, clientY |-> 80]>> }
WidePair    == <<[clientX |-> 0, clientY |-> 80], [clientX |-> 200, clientY |-> 80]>>
NarrowPair  == <<[clientX |-> 80, clientY |-> 80], [clientX |-> 120, clientY |-> 80]>>
SlantedPair == <<[clientX |-> 80, clientY |-> 40], [clientX |-> 200, clientY |-> 200]>>
TwoFingers == {WidePair, NarrowPair, SlantedPair}
ThreeFingers ==
  { <<[clientX |-> 0, clientY |-> 80], [clientX |-> 200, clientY |-> 80],
      [clientX |-> 100, clientY |-> 160]>> }

\* inputs of the Stability Evaluator explored: lateral ghost offsets (steps
\* of 0.2) and the positions the physics has left the placed bodies at
GhostOffsets == {0, 20, 140}
TargetPositions == {<<0, 0>>, <<10, 0>>, <<0, 30>>}
TargetYs == {100, 250}

Max(a, b) == IF a >= b THEN a ELSE b
Min(a, b) == IF a <= b THEN a ELSE b
Abs(a) == IF a >= 0 THEN a ELSE -a
\* a / b in fixed point, rounded toward zero
Div(a, b) == IF a >= 0 THEN a \div b ELSE -((-a) \div b)
SetMax(S) == CHOOSE m \in S : \A x \in S : x <= m

----------------------------------------------------------------------------
(* App.tsx *)

\* getRandomBlockDefinition draws one of the definitions
GetRandomBlockDefinition == RandomTypes

HandleGameOver_Toggles(finalScore) ==
  /\ isGameOver' = ~isGameOver
  /\ currentScore' = finalScore
  /\ IF finalScore > highScoreClosure
       THEN highScore' = finalScore /\ storedHighScore' = finalScore
       ELSE UNCHANGED <<highScore, storedHighScore>>

\* handleGameOver(finalScore), with the highScore its closure captured
HandleGameOver(finalScore) ==
  /\ isGameOver' = TRUE
  /\ currentScore' = finalScore
  /\ IF finalScore > highScoreClosure
       THEN highScore' = finalScore /\ storedHighScore' = finalScore
       ELSE UNCHANGED <<highScore, storedHighScore>>

HandleBlockSuccessfullyPlaced_Reinitializes ==
  /\ selectedBlockDefinition' \in GetRandomBlockDefinition
  /\ nextBlockDefinition' \in GetRandomBlockDefinition

\* handleBlockSuccessfullyPlaced, with the nextBlockDefinition its closure captured
HandleBlockSuccessfullyPlaced ==
  IF nextBlockDefinitionClosure # "null"
    THEN /\ selectedBlockDefinition' = nextBlockDefinitionClosure
         /\ nextBlockDefinition' \in GetRandomBlockDefinition
    ELSE /\ selectedBlockDefinition' \in GetRandomBlockDefinition
         /\ nextBlockDefinition' \in GetRandomBlockDefinition

----------------------------------------------------------------------------
(* GameScene.tsx: camera state and its arithmetic *)

\* Math.sin on [0, PI] in thousandths (Bhaskara's rational approximation on
\* hundredths of a radian), extended to all angles by its symmetries
SinHalfTurn(a) ==
  LET c == a \div 1000
      p == c * (314 - c)
  IN (16000 * p) \div (492980 - 4 * p)

Sin(a) ==
  LET r == a % (2 * PI)
  IN IF r >= PI THEN -SinHalfTurn(r - PI) ELSE SinHalfTurn(r)

Cos(a) == Sin(a + PI \div 2)

\* Math.sqrt, rounded down (the finger pairs explored have whole distances)
Sqrt(n) == CHOOSE r \in 0..MaxDistance : r * r <= n /\ (r + 1) * (r + 1) > n

\* camera.getWorldDirection(forward); forward.y = 0; forward.normalize() for a
\* camera placed at lookAt + radius * (sin phi sin theta, cos phi, sin phi cos theta)
Forward(theta) == [x |-> -Sin(theta), z |-> -Cos(theta)]

\* the initial value of cameraStateRef: position (5, 7, 10) looking at (0, 3, 0),
\* so radius = sqrt(141), phi = acos(4 / sqrt(141)), theta = atan2(5, 10)
InitialCameraState ==
  [isDragging |-> FALSE, lastMouseX |-> 0, lastMouseY |-> 0,
   lookAt |-> [x |-> 0, y |-> 3000, z |-> 0],
   phi |-> 122722, theta |-> 46365, radius |-> 11874]

\* the initial value of touchStateRef
InitialTouchState ==
  [isInteracting |-> FALSE, isOrbiting |-> FALSE, isPinching |-> FALSE,
   isP_anning |-> FALSE, lastTouchX1 |-> 0, lastTouchY1 |-> 0,
   initialPinchDistance |-> 0, initialPanMidX |-> 0, initialPanMidY |-> 0]

ClampPolarAngle_Unclamped(phi) == phi

\* Math.max(CAMERA_MIN_POLAR_ANGLE, Math.min(CAMERA_MAX_POLAR_ANGLE, phi))
ClampPolarAngle(phi) ==
  Max(CAMERA_MIN_POLAR_ANGLE, Min(CAMERA_MAX_POLAR_ANGLE, phi))

ClampZoomDistance_Unclamped(radius) == radius

\* Math.max(CAMERA_MIN_ZOOM_DISTANCE, Math.min(CAMERA_MAX_ZOOM_DISTANCE, radius))
ClampZoomDistance(radius) ==
  Max(CAMERA_MIN_ZOOM_DISTANCE, Min(CAMERA_MAX_ZOOM_DISTANCE, radius))

\* distance and midpoint of the two fingers of a touch list
PinchDistance(t) ==
  LET dx == t[1].clientX - t[2].clientX
      dy == t[1].clientY - t[2].clientY
  IN Sqrt(dx * dx + dy * dy)
PanMidX(t) == (t[1].clientX + t[2].clientX) \div 2
PanMidY(t) == (t[1].clientY + t[2].clientY) \div 2

----------------------------------------------------------------------------
(* GameScene.tsx: the Tower Health Monitor inside animate *)

\* ghostBlockRef.current === null
NoGhost == [present |-> FALSE, y |-> 0]

\* a pose the physics step leaves a body in
Poses == [y : PosYs, dot : Dots]

WorldStep_DropsFallen(objs, poses) ==
  SelectSeq([i \in 1..Len(objs) |->
               [objs[i] EXCEPT !.y = poses[i].y, !.dot = poses[i].dot]],
            LAMBDA obj : obj.y >= GAME_OVER_FALL_THRESHOLD_Y)

\* worldRef.current.step(1 / 60): every body gets a new pose
WorldStep(objs, poses) ==
  [i \in 1..Len(objs) |-> [objs[i] EXCEPT !.y = poses[i].y, !.dot = poses[i].dot]]

TopOfBlock(obj) == obj.y + DimensionsY(obj.definition)

\* highestBlockYForFrame after the forEach
HighestBlockYForFrame(objs) ==
  SetMax({GROUND_LEVEL} \cup {TopOfBlock(objs[i]) : i \in 1..Len(objs)})

\* currentTowerHeightForScore
CurrentTowerHeightForScore(objs) ==
  IF Len(objs) > 0 THEN HighestBlockYForFrame(objs) - GROUND_LEVEL ELSE 0

FallenOffWorld_NeedsTwoBlocks(objs, over) ==
  \E i \in 1..Len(objs) :
     Len(objs) >= 2 /\ objs[i].y < GAME_OVER_FALL_THRESHOLD_Y /\ ~over

\* anyBlockFallenOffWorld after the forEach
FallenOffWorld(objs, over) ==
  \E i \in 1..Len(objs) : objs[i].y < GAME_OVER_FALL_THRESHOLD_Y /\ ~over

TippedOverGameEnd_AnyBlockCount(objs, over) ==
  \E i \in 1..Len(objs) : ~over /\ objs[i].dot < FALLEN_BLOCK_DOT_THRESHOLD

\* anyBlockTippedOverGameEnd after the forEach
TippedOverGameEnd(objs, over) ==
  \E i \in 1..Len(objs) :
     /\ Len(objs) >= 2
     /\ ~over
     /\ objs[i].dot < FALLEN_BLOCK_DOT_THRESHOLD

UnstableCount_AnyTilt(objs, over) ==
  Cardinality({i \in 1..Len(objs) : ~over /\ objs[i].dot < 1000})

\* unstableBlockCountForWarning after the forEach
UnstableCount(objs, over) ==
  Cardinality({i \in 1..Len(objs) :
                 ~over /\ objs[i].dot < TOWER_INSTABILITY_WARNING_DOT_THRESHOLD})

GameOverArgument_CurrentHeight(maxAchieved, currentHeight) == Max(0, currentHeight)

\* the argument animate passes to onGameOver
GameOverArgument(maxAchieved, currentHeight) == Max(0, maxAchieved)

\* yPositionForGhost
YPositionForGhost(objs, highest, def) ==
  IF Len(objs) > 0
    THEN highest + DimensionsY(def) + BLOCK_SPAWN_HEIGHT_OFFSET
    ELSE GROUND_LEVEL + DimensionsY(def) + BLOCK_SPAWN_HEIGHT_OFFSET

----------------------------------------------------------------------------
(* GameScene.tsx: the Stability Evaluator *)

\* Math.max(0, target - ghost) + ghost * threshold, in thousandths
EffectiveAllowedOffset(target, ghost, threshold) ==
  Max(0, target - ghost) * 10 + ghost * threshold

WithinAllowance_Beyond(offset, allowance) == offset * 10 >= allowance

\* offset <= allowance, the offset in hundredths, the allowance in thousandths
WithinAllowance(offset, allowance) == offset * 10 <= allowance

RadialWithinAllowance_AlongXOnly(offsetX, offsetZ, allowance) ==
  100 * (offsetX * offsetX) <= allowance * allowance

\* Math.sqrt(offsetX^2 + offsetZ^2) <= allowance, compared on the squares
RadialWithinAllowance(offsetX, offsetZ, allowance) ==
  100 * (offsetX * offsetX + offsetZ * offsetZ) <= allowance * allowance

\* the index the forEach leaves in highestBlock: the first body with the
\* largest body.position.y
HighestBlock(objs) ==
  CHOOSE i \in 1..Len(objs) :
    /\ \A j \in 1..Len(objs) : objs[j].y <= objs[i].y
    /\ \A j \in 1..(i - 1) : objs[j].y < objs[i].y

BoxVerdict_WidthOnly(ghostDef, targetDef, offsetX, offsetZ) ==
  LET greenX  == EffectiveAllowedOffset(DimensionsX(targetDef), DimensionsX(ghostDef),
                                        PLACEMENT_STABILITY_GREEN_THRESHOLD_BOX)
      yellowX == EffectiveAllowedOffset(DimensionsX(targetDef), DimensionsX(ghostDef),
                                        PLACEMENT_STABILITY_YELLOW_THRESHOLD_BOX)
  IN IF WithinAllowance(offsetX, greenX) THEN "GREEN"
     ELSE IF WithinAllowance(offsetX, yellowX) THEN "YELLOW"
     ELSE "RED"

\* the Box-on-Box branch
BoxVerdict(ghostDef, targetDef, offsetX, offsetZ) ==
  LET greenX  == EffectiveAllowedOffset(DimensionsX(targetDef), DimensionsX(ghostDef),
                                        PLACEMENT_STABILITY_GREEN_THRESHOLD_BOX)
      greenZ  == EffectiveAllowedOffset(DimensionsZ(targetDef), DimensionsZ(ghostDef),
                                        PLACEMENT_STABILITY_GREEN_THRESHOLD_BOX)
      yellowX == EffectiveAllowedOffset(DimensionsX(targetDef), DimensionsX(ghostDef),
                                        PLACEMENT_STABILITY_YELLOW_THRESHOLD_BOX)
      yellowZ == EffectiveAllowedOffset(DimensionsZ(targetDef), DimensionsZ(ghostDef),
                                        PLACEMENT_STABILITY_YELLOW_THRESHOLD_BOX)
  IN IF WithinAllowance(offsetX, greenX) /\ WithinAllowance(offsetZ, greenZ)
       THEN "GREEN"
     ELSE IF WithinAllowance(offsetX, yellowX) /\ WithinAllowance(offsetZ, yellowZ)
       THEN "YELLOW"
     ELSE "RED"

\* the branch taken when the ghost or the target is a Cylinder
CylinderVerdict(ghostDef, targetDef, offsetX, offsetZ) ==
  LET green  == EffectiveAllowedOffset(DimensionsX(targetDef), DimensionsX(ghostDef),
                                       PLACEMENT_STABILITY_GREEN_THRESHOLD_CYLINDER)
      yellow == EffectiveAllowedOffset(DimensionsX(targetDef), DimensionsX(ghostDef),
                                       PLACEMENT_STABILITY_YELLOW_THRESHOLD_CYLINDER)
  IN IF RadialWithinAllowance(offsetX, offsetZ, green) THEN "GREEN"
     ELSE IF RadialWithinAllowance(offsetX, offsetZ, yellow) THEN "YELLOW"
     ELSE "RED"

PairVerdict_MixedFallsBack(ghostDef, ghostX, target) ==
  LET offsetX == Abs(ghostX - target.x)
      offsetZ == Abs(0 - target.z)
  IN IF Shape(ghostDef) = "Box" /\ Shape(target.definition) = "Box"
       THEN BoxVerdict(ghostDef, target.definition, offsetX, offsetZ)
     ELSE IF Shape(ghostDef) = "Cylinder" /\ Shape(target.definition) = "Cylinder"
       THEN CylinderVerdict(ghostDef, target.definition, offsetX, offsetZ)
     ELSE "YELLOW"

\* the verdict of the ghost against highestBlock
PairVerdict(ghostDef, ghostX, target) ==
  LET offsetX == Abs(ghostX - target.x)
      offsetZ == Abs(0 - target.z)
  IN IF Shape(ghostDef) = "Box" /\ Shape(target.definition) = "Box"
       THEN BoxVerdict(ghostDef, target.definition, offsetX, offsetZ)
     ELSE IF Shape(ghostDef) = "Cylinder" \/ Shape(target.definition) = "Cylinder"
       THEN CylinderVerdict(ghostDef, target.definition, offsetX, offsetZ)
     ELSE "YELLOW"

CalculatePlacementStability_GroundAsTarget(ghost, ghostDef, ghostX, objs) ==
  IF ~ghost.present
    THEN "GREEN"
    ELSE PairVerdict(ghostDef, ghostX,
                     IF Len(objs) = 0
                       THEN [definition |-> ghostDef, x |-> 0, z |-> 0]
                       ELSE objs[HighestBlock(objs)])

\* calculatePlacementStability
CalculatePlacementStability(ghost, ghostDef, ghostX, objs) ==
  IF ~ghost.present \/ Len(objs) = 0
    THEN "GREEN"
    ELSE PairVerdict(ghostDef, ghostX, objs[HighestBlock(objs)])

\* one frame of animate
Tick ==
  /\ pendingAnimationFrames > 0
  /\ \E poses \in [1..Len(physicsObjectsRef) -> Poses] :
       LET objs    == WorldStep(physicsObjectsRef, poses)
           playing == ~isGameOverRef
           highest == HighestBlockYForFrame(objs)
           height  == CurrentTowerHeightForScore(objs)
           fallen  == FallenOffWorld(objs, isGameOverRef)
           tipped  == TippedOverGameEnd(objs, isGameOverRef)
           newMax  == IF playing THEN Max(maxAchievedHeightInGameRef, height)
                                 ELSE maxAchievedHeightInGameRef
           fires   == (fallen \/ tipped) /\ playing
           final   == GameOverArgument(newMax, height)
       IN
       /\ physicsObjectsRef' = objs
       /\ anyBlockFallenOffWorld' = fallen
       /\ anyBlockTippedOverGameEnd' = tipped
       /\ unstableBlockCountForWarning' = UnstableCount(objs, isGameOverRef)
       /\ currentHighestBlockYRef' = highest
       /\ maxAchievedHeightInGameRef' = newMax
       /\ maxPublishedScore' = IF playing THEN Max(maxPublishedScore, Max(0, height))
                                          ELSE maxPublishedScore
       /\ lastTickFired' = fires
       /\ IF fires
            THEN /\ HandleGameOver(final)
                 /\ gameOverCalls' = Min(gameOverCalls + 1, MaxCalls)
                 /\ lastFinalScore' = final
                 /\ maxPublishedAtGameOver' = maxPublishedScore'
                 /\ maxReportedFinalScore' = Max(maxReportedFinalScore, final)
                 /\ writeWithoutExcess' =
                      (writeWithoutExcess
                         \/ (final > highScoreClosure /\ final <= storedHighScore))
            ELSE /\ currentScore' = IF playing THEN Max(0, height) ELSE currentScore
                 /\ UNCHANGED <<isGameOver, highScore, storedHighScore,
                                gameOverCalls, lastFinalScore, maxPublishedAtGameOver,
                                maxReportedFinalScore, writeWithoutExcess>>
       /\ ghostBlockRef' =
            IF ghostBlockRef.present /\ playing /\ isSceneReadyRendered
              THEN [present |-> TRUE,
                    y |-> YPositionForGhost(objs, highest, blockToPlaceRef)]
              ELSE ghostBlockRef
       /\ stabilityIndicatorColor' =
            IF ghostBlockRef.present /\ playing /\ isSceneReadyRendered
              THEN CalculatePlacementStability(ghostBlockRef, blockToPlaceRef,
                                               ghostBlockXOffsetProxyRef, objs)
              ELSE stabilityIndicatorColor
  /\ cameraForward' = Forward(cameraStateRef.theta)
  /\ animationFrameIdRef' = TRUE
  /\ pendingAnimationFrames' = pendingAnimationFrames - 1 + 1
  /\ UNCHANGED <<selectedBlockDefinition, nextBlockDefinition, gameKey,
                 highScoreClosure, nextBlockDefinitionClosure, mountedKey,
                 isSceneReady, isSceneReadyRendered, canAddBlock, canAddBlockClosure,
                 cooldownTimers, isGameOverRef, blockToPlaceRef, ghostBlockXOffset,
                 ghostBlockYRotation, ghostBlockXOffsetProxyRef,
                 ghostBlockYRotationProxyRef, blockPlacedCalls,
                 contactMaterials, cameraStateRef, touchStateRef, touches>>

----------------------------------------------------------------------------
(* GameScene.tsx: commit-placement *)

\* BLOCK_DEFINITIONS[type].friction, in thousandths; the malformed
\* definition has the values of CUBE_S
Friction(type) ==
  CASE type = "RECT_TALL"  -> 700
    [] type = "RECT_WIDE"  -> 900
    [] type = "CYLINDER_S" -> 600
    [] OTHER -> 800

\* BLOCK_DEFINITIONS[type].restitution, in thousandths
Restitution(type) == IF type = "CYLINDER_S" THEN 100 ELSE 50

\* the ContactMaterial of the new block's material and the ground's
BlockGroundContactMaterial(new) ==
  [a |-> 0, b |-> new, friction |-> 700, restitution |-> 50]

BlockBlockContactMaterial_Unscaled(existing, existingDef, new, def) ==
  [a |-> existing, b |-> new,
   friction |-> Min(Friction(def), Friction(existingDef)),
   restitution |-> Min(Restitution(def), Restitution(existingDef))]

\* the ContactMaterial of an existing block's material and the new block's;
\* a material is named by the registry index of its block, the ground's by 0
BlockBlockContactMaterial(existing, existingDef, new, def) ==
  [a |-> existing, b |-> new,
   friction |-> (Min(Friction(def), Friction(existingDef)) * 9) \div 10,
   restitution |-> (Min(Restitution(def), Restitution(existingDef)) * 5) \div 10]

\* the addContactMaterial calls of internalAddBlock: one for the ground,
\* then one for every block of the registry, in registry order
AddContactMaterials(cms, objs, def) ==
  Append(cms, BlockGroundContactMaterial(Len(objs) + 1))
    \o [i \in 1..Len(objs) |->
          BlockBlockContactMaterial(i, objs[i].definition, Len(objs) + 1, def)]

RECURSIVE WorldContactMaterials(_)
\* the contact materials of a world in which the blocks of a registry were
\* placed one after the other
WorldContactMaterials(objs) ==
  IF Len(objs) = 0
    THEN <<>>
    ELSE AddContactMaterials(WorldContactMaterials(SubSeq(objs, 1, Len(objs) - 1)),
                             SubSeq(objs, 1, Len(objs) - 1),
                             objs[Len(objs)].definition)

\* the guard of internalAddBlock; worldRef, sceneRef and blockToPlaceRef are
\* set for as long as the instance is mounted
CanPlace ==
  /\ ~isGameOverRef
  /\ canAddBlockClosure
  /\ ghostBlockRef.present

\* the rigid body internalAddBlock creates: upright, at the ghost's pose
NewBody(def) ==
  [definition |-> def,
   shape |-> CreateCannonShape(def),
   x   |-> ghostBlockXOffsetProxyRef,
   z   |-> 0,
   yaw |-> ghostBlockYRotationProxyRef,
   y   |-> ghostBlockRef.y,
   dot |-> 1000]

RegistryAfterPush_TwoBodies(objs, def) == Append(Append(objs, NewBody(def)), NewBody(def))

\* physicsObjectsRef.current.push({ mesh, body, id, definition })
RegistryAfterPush(objs, def) == Append(objs, NewBody(def))

\* internalAddBlock (Space / Enter / the place button)
InternalAddBlock ==
  /\ IF CanPlace /\ CreationRaised(blockToPlaceRef)
       \* the exception leaves the handler after the cooldown was started
       THEN /\ canAddBlock' = FALSE
            /\ cooldownTimers' = cooldownTimers + 1
            /\ UNCHANGED <<isGameOver, currentScore, highScore, storedHighScore,
                           selectedBlockDefinition, nextBlockDefinition, gameKey,
                           highScoreClosure, nextBlockDefinitionClosure, mountedKey,
                           isSceneReady, isSceneReadyRendered, canAddBlockClosure,
                           isGameOverRef, blockToPlaceRef, ghostBlockXOffset,
                           ghostBlockYRotation, ghostBlockXOffsetProxyRef,
                           ghostBlockYRotationProxyRef, ghostBlockRef,
                           animationFrameIdRef, physicsObjectsRef,
                           stabilityIndicatorColor, maxAchievedHeightInGameRef,
                           currentHighestBlockYRef, anyBlockFallenOffWorld,
                           anyBlockTippedOverGameEnd, unstableBlockCountForWarning,
                           gameOverCalls, blockPlacedCalls, lastTickFired,
                           lastFinalScore, maxPublishedScore, maxPublishedAtGameOver,
                           maxReportedFinalScore, writeWithoutExcess,
                           pendingAnimationFrames, cameraVars>>
            /\ contactMaterials' =
                 IF CreateThreeGeometry(blockToPlaceRef).kind = "raised"
                   THEN contactMaterials
                   ELSE AddContactMaterials(contactMaterials, physicsObjectsRef,
                                            blockToPlaceRef)
     ELSE IF CanPlace
       THEN /\ canAddBlock' = FALSE
            /\ cooldownTimers' = cooldownTimers + 1
            /\ contactMaterials' =
                 AddContactMaterials(contactMaterials, physicsObjectsRef, blockToPlaceRef)
            /\ physicsObjectsRef' = RegistryAfterPush(physicsObjectsRef, blockToPlaceRef)
            /\ ghostBlockXOffset' = 0
            /\ ghostBlockYRotation' = 0
            /\ HandleBlockSuccessfullyPlaced
            /\ blockPlacedCalls' = blockPlacedCalls + 1
            /\ UNCHANGED <<isGameOver, currentScore, highScore, storedHighScore, gameKey,
                           highScoreClosure, nextBlockDefinitionClosure, mountedKey,
                           isSceneReady, isSceneReadyRendered, canAddBlockClosure,
                           isGameOverRef, blockToPlaceRef, ghostBlockXOffsetProxyRef,
                           ghostBlockYRotationProxyRef, ghostBlockRef, animationFrameIdRef,
                           stabilityIndicatorColor,
                           maxAchievedHeightInGameRef, currentHighestBlockYRef,
                           anyBlockFallenOffWorld, anyBlockTippedOverGameEnd,
                           unstableBlockCountForWarning, gameOverCalls, lastTickFired,
                           lastFinalScore, maxPublishedScore, maxPublishedAtGameOver,
                           maxReportedFinalScore, writeWithoutExcess,
                           pendingAnimationFrames, cameraVars>>
       ELSE UNCHANGED vars

\* internalAddBlock within the explored number of blocks per game
Place == Len(physicsObjectsRef) < MaxBlocks /\ InternalAddBlock

\* handleKeyDown for ArrowLeft / ArrowRight / R / Shift+R: the ghost moves one
\* step or turns one (fine) step, modulo a full turn, unless the game is over,
\* the scene is not ready or there is no ghost
HandleGhostKey(key) ==
  IF isGameOverRef \/ ~isSceneReadyRendered \/ ~ghostBlockRef.present
    THEN UNCHANGED vars
    ELSE /\ ghostBlockXOffset' =
              CASE key = "arrowleft" -> ghostBlockXOffset - GHOST_BLOCK_X_MOVEMENT_STEP
                [] key = "arrowright" -> ghostBlockXOffset + GHOST_BLOCK_X_MOVEMENT_STEP
                [] OTHER -> ghostBlockXOffset
         /\ ghostBlockYRotation' =
              CASE key = "r" ->
                     (ghostBlockYRotation + GHOST_BLOCK_ROTATION_STEP) % (2 * PI)
                [] key = "shift+r" ->
                     (ghostBlockYRotation + GHOST_BLOCK_FINE_ROTATION_STEP) % (2 * PI)
                [] OTHER -> ghostBlockYRotation
         /\ UNCHANGED <<isGameOver, currentScore, highScore, storedHighScore,
                        selectedBlockDefinition, nextBlockDefinition, gameKey,
                        highScoreClosure, nextBlockDefinitionClosure, mountedKey,
                        isSceneReady, isSceneReadyRendered, canAddBlock,
                        canAddBlockClosure, cooldownTimers, isGameOverRef,
                        blockToPlaceRef,
                        ghostBlockXOffsetProxyRef, ghostBlockYRotationProxyRef,
                        ghostBlockRef, animationFrameIdRef, physicsObjectsRef,
                        stabilityIndicatorColor, maxAchievedHeightInGameRef,
                        currentHighestBlockYRef, anyBlockFallenOffWorld,
                        anyBlockTippedOverGameEnd, unstableBlockCountForWarning,
                        gameOverCalls, blockPlacedCalls, lastTickFired,
                        lastFinalScore, maxPublishedScore, maxPublishedAtGameOver,
                        maxReportedFinalScore, writeWithoutExcess,
                 pendingAnimationFrames, contactMaterials, cameraVars>>

\* the mobile block controls: four buttons, rendered only while the last
\* render had the game playing, the scene ready and a block to place; their
\* onClick handlers set the ghost state directly
HandleMobileBlockControl(button) ==
  /\ ~isGameOverRef /\ isSceneReadyRendered
  /\ ghostBlockXOffset' =
       CASE button = "left" -> ghostBlockXOffset - GHOST_BLOCK_X_MOVEMENT_STEP
         [] button = "right" -> ghostBlockXOffset + GHOST_BLOCK_X_MOVEMENT_STEP
         [] OTHER -> ghostBlockXOffset
  /\ ghostBlockYRotation' =
       CASE button = "rotate" ->
              (ghostBlockYRotation + GHOST_BLOCK_ROTATION_STEP) % (2 * PI)
         [] button = "fine" ->
              (ghostBlockYRotation + GHOST_BLOCK_FINE_ROTATION_STEP) % (2 * PI)
         [] OTHER -> ghostBlockYRotation
  /\ UNCHANGED <<isGameOver, currentScore, highScore, storedHighScore,
                 selectedBlockDefinition, nextBlockDefinition, gameKey,
                 highScoreClosure, nextBlockDefinitionClosure, mountedKey,
                 isSceneReady, isSceneReadyRendered, canAddBlock,
                 canAddBlockClosure, cooldownTimers, isGameOverRef,
                 blockToPlaceRef,
                 ghostBlockXOffsetProxyRef, ghostBlockYRotationProxyRef,
                 ghostBlockRef, animationFrameIdRef, physicsObjectsRef,
                 stabilityIndicatorColor, maxAchievedHeightInGameRef,
                 currentHighestBlockYRef, anyBlockFallenOffWorld,
                 anyBlockTippedOverGameEnd, unstableBlockCountForWarning,
                 gameOverCalls, blockPlacedCalls, lastTickFired,
                 lastFinalScore, maxPublishedScore, maxPublishedAtGameOver,
                 maxReportedFinalScore, writeWithoutExcess,
                 pendingAnimationFrames, contactMaterials, cameraVars>>

\* the cooldown timer set by internalAddBlock fires: setCanAddBlock(true)
TimerFire ==
  /\ cooldownTimers > 0
  /\ cooldownTimers' = cooldownTimers - 1
  /\ canAddBlock' = TRUE
  /\ UNCHANGED <<isGameOver, currentScore, highScore, storedHighScore,
                 selectedBlockDefinition, nextBlockDefinition, gameKey,
                 highScoreClosure, nextBlockDefinitionClosure, mountedKey,
                 isSceneReady, isSceneReadyRendered, canAddBlockClosure,
                 isGameOverRef, blockToPlaceRef, ghostBlockXOffset, ghostBlockYRotation,
                 ghostBlockXOffsetProxyRef, ghostBlockYRotationProxyRef, ghostBlockRef,
                 animationFrameIdRef, physicsObjectsRef, stabilityIndicatorColor,
                 maxAchievedHeightInGameRef,
                 currentHighestBlockYRef, anyBlockFallenOffWorld,
                 anyBlockTippedOverGameEnd, unstableBlockCountForWarning,
                 gameOverCalls, blockPlacedCalls, lastTickFired, lastFinalScore,
                 maxPublishedScore, maxPublishedAtGameOver,
                 maxReportedFinalScore, writeWithoutExcess,
                 pendingAnimationFrames, contactMaterials, cameraVars>>

----------------------------------------------------------------------------
(* GameScene.tsx: mouse, wheel and preset handlers of the camera *)

HandleMouseDown_DuringTouch(button, clientX, clientY) ==
  /\ IF button # 0
       THEN UNCHANGED cameraStateRef
       ELSE cameraStateRef' = [cameraStateRef EXCEPT !.isDragging = TRUE,
                                                     !.lastMouseX = clientX,
                                                     !.lastMouseY = clientY]
  /\ UNCHANGED <<gameVars, touchStateRef, cameraForward, touches>>

\* handleMouseDown
HandleMouseDown(button, clientX, clientY) ==
  /\ IF button # 0 \/ touchStateRef.isInteracting
       THEN UNCHANGED cameraStateRef
       ELSE cameraStateRef' = [cameraStateRef EXCEPT !.isDragging = TRUE,
                                                     !.lastMouseX = clientX,
                                                     !.lastMouseY = clientY]
  /\ UNCHANGED <<gameVars, touchStateRef, cameraForward, touches>>

\* handleMouseMove
HandleMouseMove(clientX, clientY) ==
  /\ IF ~cameraStateRef.isDragging \/ touchStateRef.isInteracting
       THEN UNCHANGED cameraStateRef
       ELSE LET deltaX == clientX - cameraStateRef.lastMouseX
                deltaY == clientY - cameraStateRef.lastMouseY
            IN cameraStateRef' =
                 [cameraStateRef EXCEPT
                    !.theta = @ - deltaX * CAMERA_ROTATION_SPEED_X,
                    !.phi = ClampPolarAngle(@ - deltaY * CAMERA_ROTATION_SPEED_Y),
                    !.lastMouseX = clientX,
                    !.lastMouseY = clientY]
  \* the exploration stops at the bound on theta
  /\ Abs(cameraStateRef'.theta) <= MaxTheta
  /\ UNCHANGED <<gameVars, touchStateRef, cameraForward, touches>>

\* handleMouseUp
HandleMouseUp ==
  /\ cameraStateRef' = [cameraStateRef EXCEPT !.isDragging = FALSE]
  /\ UNCHANGED <<gameVars, touchStateRef, cameraForward, touches>>

\* handleWheel
HandleWheel(deltaY) ==
  /\ IF touchStateRef.isInteracting
       THEN UNCHANGED cameraStateRef
       ELSE cameraStateRef' =
              [cameraStateRef EXCEPT
                 !.radius = ClampZoomDistance(@ + deltaY * CAMERA_ZOOM_SPEED)]
  /\ UNCHANGED <<gameVars, touchStateRef, cameraForward, touches>>

PresetLookAtY_KeepsLookAt(preset) == cameraStateRef.lookAt.y

\* the lookAt.y a preset computes (world heights are in hundredths)
PresetLookAtY(preset) ==
  CASE preset = "front" ->
         (currentHighestBlockYRef * 10 * CAMERA_PRESET_FRONT.lookAtYFactor) \div 10
    [] preset = "top" ->
         IF Len(physicsObjectsRef) > 0
           THEN (currentHighestBlockYRef * 10) \div 2
           ELSE CAMERA_PRESET_TOP.lookAtY
    [] preset = "side" ->
         (currentHighestBlockYRef * 10 * CAMERA_PRESET_SIDE.lookAtYFactor) \div 10

PresetConfig(preset) ==
  CASE preset = "front" -> CAMERA_PRESET_FRONT
    [] preset = "top"   -> CAMERA_PRESET_TOP
    [] preset = "side"  -> CAMERA_PRESET_SIDE

\* setCameraPreset
SetCameraPreset(preset) ==
  /\ LET config == PresetConfig(preset)
     IN cameraStateRef' =
          [cameraStateRef EXCEPT
             !.lookAt = [x |-> config.lookAtX, y |-> PresetLookAtY(preset),
                         z |-> config.lookAtZ],
             !.phi = ClampPolarAngle(config.phi),
             !.theta = config.theta,
             !.radius = config.radius]
  /\ UNCHANGED <<gameVars, touchStateRef, cameraForward, touches>>

----------------------------------------------------------------------------
(* GameScene.tsx: touch handlers of the camera.  The handlers read          *)
(* event.touches; the touch list only grows at a touchstart, only shrinks   *)
(* at a touchend or touchcancel and keeps its length at a touchmove.        *)

\* handleTouchStart
HandleTouchStart(t) ==
  /\ Len(t) > Len(touches)
  /\ touches' = t
  /\ cameraStateRef' = [cameraStateRef EXCEPT !.isDragging = FALSE]
  /\ touchStateRef' =
       LET ts == [touchStateRef EXCEPT !.isInteracting = TRUE]
       IN IF Len(t) = 1
            THEN [ts EXCEPT !.isOrbiting = TRUE,
                            !.isPinching = FALSE,
                            !.isP_anning = FALSE,
                            !.lastTouchX1 = t[1].clientX,
                            !.lastTouchY1 = t[1].clientY]
          ELSE IF Len(t) = 2
            THEN [ts EXCEPT !.isOrbiting = FALSE,
                            !.initialPinchDistance = PinchDistance(t),
                            !.lastTouchX1 = t[1].clientX,
                            !.lastTouchY1 = t[1].clientY,
                            !.initialPanMidX = PanMidX(t),
                            !.initialPanMidY = PanMidY(t),
                            !.isP_anning = TRUE,
                            !.isPinching = FALSE]
          ELSE ts
  /\ UNCHANGED <<gameVars, cameraForward>>

GestureUndecided_Always(ts) == TRUE

\* !ts.isPinching && !ts.isP_anning
GestureUndecided(ts) == ~ts.isPinching /\ ~ts.isP_anning

\* the mode decision of a two-finger touchmove
LockGesture(ts, pinchDelta, panDeltaX, panDeltaY) ==
  IF GestureUndecided(ts)
    THEN IF /\ Abs(pinchDelta) > Max(Abs(panDeltaX), Abs(panDeltaY))
            /\ Abs(pinchDelta) > pinchThreshold
           THEN [ts EXCEPT !.isPinching = TRUE, !.isP_anning = FALSE]
           ELSE [ts EXCEPT !.isP_anning = TRUE, !.isPinching = FALSE]
    ELSE ts

\* the pan of the look-at target along the camera's right and forward
\* directions, scaled by panSpeedFactor = 0.005 * radius
PanLookAt(lookAt, panDeltaX, panDeltaY, radius, forward) ==
  LET right   == [x |-> forward.z, z |-> -forward.x]
      alongRt == Div(-panDeltaX * radius, 200)
      alongFw == Div(-panDeltaY * radius, 200)
  IN [lookAt EXCEPT
        !.x = @ + Div(right.x * alongRt, 1000) + Div(forward.x * alongFw, 1000),
        !.z = @ + Div(right.z * alongRt, 1000) + Div(forward.z * alongFw, 1000)]

\* handleTouchMove
HandleTouchMove(t) ==
  /\ Len(t) = Len(touches)
  /\ Len(t) > 0
  /\ touches' = t
  /\ IF ~touchStateRef.isInteracting
       THEN UNCHANGED <<cameraStateRef, touchStateRef>>
     ELSE IF Len(t) = 1 /\ touchStateRef.isOrbiting
       THEN LET deltaX == t[1].clientX - touchStateRef.lastTouchX1
                deltaY == t[1].clientY - touchStateRef.lastTouchY1
            IN /\ cameraStateRef' =
                    [cameraStateRef EXCEPT
                       !.theta = @ - Div(deltaX * CAMERA_ROTATION_SPEED_X * 3, 4),
                       !.phi = ClampPolarAngle(
                                 @ - Div(deltaY * CAMERA_ROTATION_SPEED_Y * 3, 4))]
               /\ touchStateRef' = [touchStateRef EXCEPT !.lastTouchX1 = t[1].clientX,
                                                         !.lastTouchY1 = t[1].clientY]
     ELSE IF Len(t) = 2
       THEN LET currentPinchDistance == PinchDistance(t)
                pinchDelta == currentPinchDistance - touchStateRef.initialPinchDistance
                panDeltaX  == PanMidX(t) - touchStateRef.initialPanMidX
                panDeltaY  == PanMidY(t) - touchStateRef.initialPanMidY
                ts == LockGesture(touchStateRef, pinchDelta, panDeltaX, panDeltaY)
            IN IF ts.isPinching
                 THEN /\ cameraStateRef' =
                           [cameraStateRef EXCEPT
                              !.radius = ClampZoomDistance(
                                           @ - pinchDelta * CAMERA_ZOOM_SPEED * 15)]
                      /\ touchStateRef' =
                           [ts EXCEPT !.initialPinchDistance = currentPinchDistance]
               ELSE IF ts.isP_anning
                 THEN /\ cameraStateRef' =
                           [cameraStateRef EXCEPT
                              !.lookAt = PanLookAt(@, panDeltaX, panDeltaY,
                                                   cameraStateRef.radius, cameraForward)]
                      /\ touchStateRef' = [ts EXCEPT !.initialPanMidX = PanMidX(t),
                                                     !.initialPanMidY = PanMidY(t)]
               ELSE /\ touchStateRef' = ts
                    /\ UNCHANGED cameraStateRef
     ELSE UNCHANGED <<cameraStateRef, touchStateRef>>
  \* the exploration stops at the bounds on theta and lookAt
  /\ Abs(cameraStateRef'.theta) <= MaxTheta
  /\ Abs(cameraStateRef'.lookAt.x) <= MaxLookAt
  /\ Abs(cameraStateRef'.lookAt.z) <= MaxLookAt
  /\ UNCHANGED <<gameVars, cameraForward>>

HandleTouchEnd_KeepsReference(t) ==
  /\ Len(t) < Len(touches)
  /\ touches' = t
  /\ touchStateRef' =
       IF Len(t) = 0
         THEN [touchStateRef EXCEPT !.isInteracting = FALSE,
                                    !.isOrbiting = FALSE,
                                    !.isPinching = FALSE,
                                    !.isP_anning = FALSE]
       ELSE IF Len(t) = 1
         THEN [touchStateRef EXCEPT !.isPinching = FALSE,
                                    !.isP_anning = FALSE,
                                    !.isOrbiting = TRUE]
       ELSE touchStateRef
  /\ UNCHANGED <<gameVars, cameraStateRef, cameraForward>>

\* handleTouchEnd (touchend and touchcancel)
HandleTouchEnd(t) ==
  /\ Len(t) < Len(touches)
  /\ touches' = t
  /\ touchStateRef' =
       IF Len(t) = 0
         THEN [touchStateRef EXCEPT !.isInteracting = FALSE,
                                    !.isOrbiting = FALSE,
                                    !.isPinching = FALSE,
                                    !.isP_anning = FALSE]
       ELSE IF Len(t) = 1
         THEN [touchStateRef EXCEPT !.isPinching = FALSE,
                                    !.isP_anning = FALSE,
                                    !.isOrbiting = TRUE,
                                    !.lastTouchX1 = t[1].clientX,
                                    !.lastTouchY1 = t[1].clientY]
       ELSE touchStateRef
  /\ UNCHANGED <<gameVars, cameraStateRef, cameraForward>>

----------------------------------------------------------------------------
(* React: one render of App and GameScene with its effects *)

\* cancelAnimationFrame(animationFrameIdRef.current) behind its null test:
\* the request the ref names, if any, is withdrawn
CancelAnimationFrame(id, pending) == IF id THEN Max(0, pending - 1) ELSE pending

LoopEffectPending_NoCancel(loopDeps, ready, over, id, pending) ==
  IF loopDeps /\ ready /\ ~over THEN pending + 1 ELSE pending

\* the loop start/stop effect: when a dependency changed, the cleanup of the
\* previous run cancels the request of the ref and clears the ref, then the
\* body requests a frame if the scene is ready, the game is not over and the
\* ref is empty, or cancels if the game is over or the scene not ready
LoopEffectPending(loopDeps, ready, over, id, pending) ==
  LET afterCleanup == IF loopDeps THEN CancelAnimationFrame(id, pending) ELSE pending
      idAfter      == IF loopDeps THEN FALSE ELSE id
  IN IF ~loopDeps THEN pending
     ELSE IF ready /\ ~over /\ ~idAfter THEN afterCleanup + 1
     ELSE IF (over \/ ~ready) /\ idAfter
       THEN CancelAnimationFrame(idAfter, afterCleanup)
     ELSE afterCleanup

\* the mounted instance re-renders
Rerender ==
  LET ready     == isSceneReady
      over      == isGameOver
      def       == selectedBlockDefinition
      ghostDeps == ready # isSceneReadyRendered \/ def # blockToPlaceRef
                   \/ over # isGameOverRef
      loopDeps  == ready # isSceneReadyRendered \/ over # isGameOverRef
      resets    == ghostDeps /\ ready /\ ~over
  IN
  \* refs and handler closures
  /\ isGameOverRef' = over
  /\ blockToPlaceRef' = def
  /\ highScoreClosure' = highScore
  /\ nextBlockDefinitionClosure' = nextBlockDefinition
  /\ canAddBlockClosure' = canAddBlock
  /\ isSceneReadyRendered' = ready
  \* proxies of the ghost state
  /\ ghostBlockXOffsetProxyRef' = ghostBlockXOffset
  /\ ghostBlockYRotationProxyRef' = ghostBlockYRotation
  \* ghost effect
  /\ ghostBlockRef' = IF ghostDeps /\ ~ready THEN NoGhost
                      ELSE IF resets /\ ~ghostBlockRef.present
                             THEN [present |-> TRUE, y |-> 0]
                      ELSE ghostBlockRef
  \* the indicator is created green together with the ghost
  /\ stabilityIndicatorColor' = IF resets /\ ~ghostBlockRef.present
                                  THEN "GREEN" ELSE stabilityIndicatorColor
  /\ ghostBlockXOffset' = IF resets THEN 0 ELSE ghostBlockXOffset
  /\ ghostBlockYRotation' = IF resets THEN 0 ELSE ghostBlockYRotation
  \* loop start/stop effect
  /\ animationFrameIdRef' = IF loopDeps THEN ready /\ ~over ELSE animationFrameIdRef
  /\ pendingAnimationFrames' =
       LoopEffectPending(loopDeps, ready, over, animationFrameIdRef,
                         pendingAnimationFrames)
  /\ UNCHANGED <<isGameOver, currentScore, highScore, storedHighScore,
                 selectedBlockDefinition, nextBlockDefinition, gameKey, mountedKey,
                 isSceneReady, canAddBlock, cooldownTimers, physicsObjectsRef,
                 maxAchievedHeightInGameRef, currentHighestBlockYRef,
                 anyBlockFallenOffWorld, anyBlockTippedOverGameEnd,
                 unstableBlockCountForWarning, gameOverCalls, blockPlacedCalls,
                 lastTickFired, lastFinalScore, maxPublishedScore,
                 maxPublishedAtGameOver, maxReportedFinalScore,
                 writeWithoutExcess, contactMaterials, cameraVars>>

\* the key changed: the old instance is torn down and a fresh one mounted
Remount ==
  /\ mountedKey' = gameKey
  /\ highScoreClosure' = highScore
  /\ nextBlockDefinitionClosure' = nextBlockDefinition
  /\ isGameOverRef' = isGameOver
  /\ blockToPlaceRef' = selectedBlockDefinition
  /\ isSceneReady' = TRUE
  /\ isSceneReadyRendered' = FALSE
  /\ canAddBlock' = TRUE
  /\ canAddBlockClosure' = TRUE
  /\ cooldownTimers' = 0
  /\ ghostBlockXOffset' = 0
  /\ ghostBlockYRotation' = 0
  /\ ghostBlockXOffsetProxyRef' = 0
  /\ ghostBlockYRotationProxyRef' = 0
  /\ ghostBlockRef' = NoGhost
  /\ animationFrameIdRef' = FALSE
  /\ pendingAnimationFrames' =
       CancelAnimationFrame(animationFrameIdRef, pendingAnimationFrames)
  /\ contactMaterials' = <<>>
  /\ physicsObjectsRef' = <<>>
  /\ stabilityIndicatorColor' = "GREEN"
  /\ maxAchievedHeightInGameRef' = 0
  /\ currentHighestBlockYRef' = GROUND_LEVEL
  /\ anyBlockFallenOffWorld' = FALSE
  /\ anyBlockTippedOverGameEnd' = FALSE
  /\ unstableBlockCountForWarning' = 0
  /\ gameOverCalls' = 0
  /\ blockPlacedCalls' = 0
  /\ lastTickFired' = FALSE
  /\ lastFinalScore' = -1
  /\ maxPublishedScore' = 0
  /\ maxPublishedAtGameOver' = 0
  /\ cameraStateRef' = InitialCameraState
  /\ touchStateRef' = InitialTouchState
  /\ cameraForward' = Forward(InitialCameraState.theta)
  /\ touches' = <<>>
  /\ UNCHANGED <<isGameOver, currentScore, highScore, storedHighScore,
                 selectedBlockDefinition, nextBlockDefinition, gameKey,
                 maxReportedFinalScore, writeWithoutExcess>>

Commit == IF gameKey # mountedKey THEN Remount ELSE Rerender

\* handleRestart
Restart ==
  /\ gameKey < MaxRestarts
  /\ isGameOver' = FALSE
  /\ currentScore' = 0
  /\ selectedBlockDefinition' \in GetRandomBlockDefinition
  /\ nextBlockDefinition' \in GetRandomBlockDefinition
  /\ gameKey' = gameKey + 1
  /\ UNCHANGED <<highScore, storedHighScore, highScoreClosure,
                 nextBlockDefinitionClosure, mountedKey, isSceneReady,
                 isSceneReadyRendered, canAddBlock, canAddBlockClosure, cooldownTimers,
                 isGameOverRef, blockToPlaceRef, ghostBlockXOffset, ghostBlockYRotation,
                 ghostBlockXOffsetProxyRef, ghostBlockYRotationProxyRef, ghostBlockRef,
                 animationFrameIdRef, physicsObjectsRef, stabilityIndicatorColor,
                 maxAchievedHeightInGameRef,
                 currentHighestBlockYRef, anyBlockFallenOffWorld,
                 anyBlockTippedOverGameEnd, unstableBlockCountForWarning,
                 gameOverCalls, blockPlacedCalls, lastTickFired, lastFinalScore,
                 maxPublishedScore, maxPublishedAtGameOver,
                 maxReportedFinalScore, writeWithoutExcess,
                 pendingAnimationFrames, contactMaterials, cameraVars>>

----------------------------------------------------------------------------
(* The state after App and GameScene have mounted and run their first      *)
(* effects: the scene is built and setIsSceneReady(true) and               *)
(* initializeGameBlocks() are queued for the next render.                  *)

InitialGame ==
  /\ isGameOver = FALSE
  /\ currentScore = 0
  /\ storedHighScore \in StoredScores
  /\ highScore = storedHighScore
  /\ highScoreClosure = storedHighScore
  /\ nextBlockDefinition \in GetRandomBlockDefinition
  /\ nextBlockDefinitionClosure = "null"
  /\ gameKey = 0
  /\ mountedKey = 0
  /\ isSceneReady = TRUE
  /\ isSceneReadyRendered = FALSE
  /\ canAddBlock = TRUE
  /\ canAddBlockClosure = TRUE
  /\ cooldownTimers = 0
  /\ isGameOverRef = FALSE
  /\ ghostBlockXOffset = 0
  /\ ghostBlockYRotation = 0
  /\ ghostBlockXOffsetProxyRef = 0
  /\ ghostBlockYRotationProxyRef = 0
  /\ ghostBlockRef = NoGhost
  /\ animationFrameIdRef = FALSE
  /\ pendingAnimationFrames = 0
  /\ contactMaterials = <<>>
  /\ physicsObjectsRef = <<>>
  /\ stabilityIndicatorColor = "GREEN"
  /\ maxAchievedHeightInGameRef = 0
  /\ currentHighestBlockYRef = GROUND_LEVEL
  /\ anyBlockFallenOffWorld = FALSE
  /\ anyBlockTippedOverGameEnd = FALSE
  /\ unstableBlockCountForWarning = 0
  /\ gameOverCalls = 0
  /\ blockPlacedCalls = 0
  /\ lastTickFired = FALSE
  /\ lastFinalScore = -1
  /\ maxPublishedScore = 0
  /\ maxPublishedAtGameOver = 0
  /\ maxReportedFinalScore = storedHighScore
  /\ writeWithoutExcess = FALSE
  /\ cameraStateRef = InitialCameraState
  /\ touchStateRef = InitialTouchState
  /\ cameraForward = Forward(InitialCameraState.theta)
  /\ touches = <<>>

Init ==
  /\ InitialGame
  /\ selectedBlockDefinition \in GetRandomBlockDefinition
  /\ blockToPlaceRef \in GetRandomBlockDefinition

\* one game: from the mount of the scene to its game-over
Next == Tick \/ Place \/ TimerFire \/ Commit

Spec == Init /\ [][Next]_vars

\* games and restarts
RestartNext == Tick \/ Place \/ TimerFire \/ Commit \/ Restart

RestartSpec == Init /\ [][RestartNext]_vars

\* the Stability Evaluator: a running game with the ghost shown, any pending
\* definition, any explored ghost offset and any explored registry
TargetBodies ==
  {[definition |-> def, shape |-> CreateCannonShape(def),
    x |-> pos[1], z |-> pos[2], yaw |-> 0, y |-> y, dot |-> 1000] :
     def \in BlockShapeType, pos \in TargetPositions, y \in TargetYs}

TargetRegistries == UNION {[1..n -> TargetBodies] : n \in 0..MaxTargets}

StabilityInit ==
  /\ isGameOver = FALSE
  /\ isGameOverRef = FALSE
  /\ storedHighScore \in StoredScores
  /\ highScore = storedHighScore
  /\ highScoreClosure = storedHighScore
  /\ blockToPlaceRef \in BlockShapeType
  /\ selectedBlockDefinition = blockToPlaceRef
  /\ nextBlockDefinition = "CUBE_S"
  /\ nextBlockDefinitionClosure = "CUBE_S"
  /\ gameKey = 0
  /\ mountedKey = 0
  /\ isSceneReady = TRUE
  /\ isSceneReadyRendered = TRUE
  /\ canAddBlock = TRUE
  /\ canAddBlockClosure = TRUE
  /\ cooldownTimers = 0
  /\ ghostBlockXOffset \in GhostOffsets
  /\ ghostBlockXOffsetProxyRef = ghostBlockXOffset
  /\ ghostBlockYRotation = 0
  /\ ghostBlockYRotationProxyRef = 0
  /\ physicsObjectsRef \in TargetRegistries
  /\ currentHighestBlockYRef = HighestBlockYForFrame(physicsObjectsRef)
  /\ maxAchievedHeightInGameRef = CurrentTowerHeightForScore(physicsObjectsRef)
  /\ currentScore = CurrentTowerHeightForScore(physicsObjectsRef)
  /\ maxPublishedScore = currentScore
  /\ ghostBlockRef = [present |-> TRUE,
                      y |-> YPositionForGhost(physicsObjectsRef, currentHighestBlockYRef,
                                              blockToPlaceRef)]
  /\ stabilityIndicatorColor = "GREEN"
  /\ animationFrameIdRef = TRUE
  /\ pendingAnimationFrames = 1
  /\ contactMaterials = WorldContactMaterials(physicsObjectsRef)
  /\ anyBlockFallenOffWorld = FALSE
  /\ anyBlockTippedOverGameEnd = FALSE
  /\ unstableBlockCountForWarning = 0
  /\ gameOverCalls = 0
  /\ blockPlacedCalls = Len(physicsObjectsRef)
  /\ lastTickFired = FALSE
  /\ lastFinalScore = -1
  /\ maxPublishedAtGameOver = 0
  /\ maxReportedFinalScore = storedHighScore
  /\ writeWithoutExcess = FALSE
  /\ cameraStateRef = InitialCameraState
  /\ touchStateRef = InitialTouchState
  /\ cameraForward = Forward(InitialCameraState.theta)
  /\ touches = <<>>

\* the evaluation of a frame that shows the ghost: the indicator takes the
\* colour calculatePlacementStability returns
EvaluateStability ==
  /\ ghostBlockRef.present /\ ~isGameOverRef /\ isSceneReadyRendered
  /\ stabilityIndicatorColor' =
       CalculatePlacementStability(ghostBlockRef, blockToPlaceRef,
                                   ghostBlockXOffsetProxyRef, physicsObjectsRef)
  /\ UNCHANGED <<isGameOver, currentScore, highScore, storedHighScore,
                 selectedBlockDefinition, nextBlockDefinition, gameKey,
                 highScoreClosure, nextBlockDefinitionClosure, mountedKey,
                 isSceneReady, isSceneReadyRendered, canAddBlock, canAddBlockClosure,
                 cooldownTimers, isGameOverRef, blockToPlaceRef, ghostBlockXOffset,
                 ghostBlockYRotation, ghostBlockXOffsetProxyRef,
                 ghostBlockYRotationProxyRef, ghostBlockRef, animationFrameIdRef,
                 physicsObjectsRef, maxAchievedHeightInGameRef,
                 currentHighestBlockYRef, anyBlockFallenOffWorld,
                 anyBlockTippedOverGameEnd, unstableBlockCountForWarning,
                 gameOverCalls, blockPlacedCalls, lastTickFired, lastFinalScore,
                 maxPublishedScore, maxPublishedAtGameOver,
                 maxReportedFinalScore, writeWithoutExcess,
                 pendingAnimationFrames, contactMaterials, cameraVars>>

StabilityNext == EvaluateStability

StabilitySpec == StabilityInit /\ [][StabilityNext]_vars

\* the camera specifications start from one draw of the first blocks
CameraInit ==
  /\ Init
  /\ selectedBlockDefinition = "RECT_TALL"
  /\ nextBlockDefinition = "RECT_TALL"
  /\ blockToPlaceRef = "RECT_TALL"

MouseDown ==
  \E b \in MouseButtons, p \in MousePoints : HandleMouseDown(b, p.clientX, p.clientY)
MouseMove == \E p \in MousePoints : HandleMouseMove(p.clientX, p.clientY)
MouseUp == HandleMouseUp
Wheel == \E deltaY \in WheelDeltas : HandleWheel(deltaY)
Preset == \E preset \in CameraPresets : SetCameraPreset(preset)

\* whole games: ticks and placements, the game over and the host's restart
LifecyclePlace == Len(physicsObjectsRef) < MaxLifecycleBlocks /\ Place

LifecycleNext == Tick \/ LifecyclePlace \/ TimerFire \/ Commit \/ Restart

LifecycleSpec == Init /\ [][LifecycleNext]_vars

\* whole games with the player's other inputs: the ghost is moved to the
\* right, the mouse button is pressed and released over the scene
InputGhostKey ==
  /\ ghostBlockXOffset + GHOST_BLOCK_X_MOVEMENT_STEP
       <= MaxGhostSteps * GHOST_BLOCK_X_MOVEMENT_STEP
  /\ HandleGhostKey("arrowright")

InputMouseDown == HandleMouseDown(0, 0, 0)

InputNext ==
  Tick \/ LifecyclePlace \/ TimerFire \/ Commit \/ Restart
    \/ InputGhostKey \/ InputMouseDown \/ MouseUp

InputSpec == Init /\ [][InputNext]_vars

\* orbiting: mouse drags, one-finger touches and presets
OrbitTouchStart == \E t \in OneFinger : HandleTouchStart(t)
OrbitTouchMove == \E t \in OneFinger : HandleTouchMove(t)
OrbitTouchEnd == HandleTouchEnd(<<>>)

OrbitNext ==
  \/ MouseDown \/ MouseMove \/ MouseUp
  \/ OrbitTouchStart \/ OrbitTouchMove \/ OrbitTouchEnd
  \/ Preset

OrbitSpec == CameraInit /\ [][OrbitNext]_vars

\* zooming: the wheel, two and three fingers about one midpoint, and presets
ZoomTouches == {WidePair, NarrowPair} \cup ThreeFingers

ZoomTouchStart == \E t \in ZoomTouches : HandleTouchStart(t)
ZoomTouchMove == \E t \in ZoomTouches : HandleTouchMove(t)
ZoomTouchEnd == \E t \in {<<>>, WidePair, NarrowPair} : HandleTouchEnd(t)

ZoomNext == Wheel \/ ZoomTouchStart \/ ZoomTouchMove \/ ZoomTouchEnd \/ Preset

ZoomSpec == CameraInit /\ [][ZoomNext]_vars

\* touch gestures with one, two and three fingers
GestureTouches == OneFinger \cup TwoFingers \cup ThreeFingers

GestureTouchStart == \E t \in GestureTouches : HandleTouchStart(t)
GestureTouchMove == \E t \in GestureTouches : HandleTouchMove(t)
GestureTouchEnd ==
  \E t \in {<<>>} \cup OneFinger \cup TwoFingers : HandleTouchEnd(t)

GestureNext == GestureTouchStart \/ GestureTouchMove \/ GestureTouchEnd

GestureSpec == CameraInit /\ [][GestureNext]_vars

\* the mouse and the wheel used together with one-finger touches
PointerNext ==
  \/ MouseDown \/ MouseMove \/ MouseUp \/ Wheel
  \/ OrbitTouchStart \/ OrbitTouchMove \/ OrbitTouchEnd

PointerSpec == CameraInit /\ [][PointerNext]_vars

----------------------------------------------------------------------------
(* A game whose first definition is malformed *)

ShapeInit ==
  /\ InitialGame
  /\ selectedBlockDefinition = MalformedDefinition
  /\ blockToPlaceRef = MalformedDefinition

ShapeSpec == ShapeInit /\ [][Next]_vars

-----------------------------------------------------------------------------
(* Presets over a growing tower *)

\* one game with camera presets and the wheel
PresetNext == Tick \/ LifecyclePlace \/ TimerFire \/ Commit \/ Preset \/ Wheel

PresetSpec == CameraInit /\ [][PresetNext]_vars

-----------------------------------------------------------------------------
(* Placements alone: the contact materials of a growing registry *)

ContactPlace == Len(physicsObjectsRef) < MaxContactBlocks /\ InternalAddBlock

ContactNext == ContactPlace \/ TimerFire \/ Commit

ContactSpec == Init /\ [][ContactNext]_vars

-----------------------------------------------------------------------------
(* The placement path between two frames *)

\* the player's inputs between two frames: the ghost is moved to the right or
\* turned, blocks are placed, timers fire and React commits
PlacementGhostKey ==
  \E key \in {"arrowright", "r"} :
    /\ key = "arrowright" =>
         ghostBlockXOffset < MaxGhostSteps * GHOST_BLOCK_X_MOVEMENT_STEP
    /\ key = "r" =>
         ghostBlockYRotation < MaxGhostSteps * GHOST_BLOCK_ROTATION_STEP
    /\ HandleGhostKey(key)

PlacementNext == Place \/ TimerFire \/ Commit \/ PlacementGhostKey

PlacementSpec == Init /\ [][PlacementNext]_vars

\* the ghost's inputs during one game of one draw of the blocks: the four
\* keys and the four buttons, the ghost kept between the centre and
\* MaxGhostSteps steps to its right, and turned by one step from yaw 0
GhostKeys == {"arrowleft", "arrowright", "r", "shift+r"}
GhostButtons == {"left", "right", "rotate", "fine"}

GhostInputAllowed(input) ==
  /\ input \in {"arrowleft", "left"} => ghostBlockXOffset > 0
  /\ input \in {"arrowright", "right"} =>
       ghostBlockXOffset < MaxGhostSteps * GHOST_BLOCK_X_MOVEMENT_STEP
  /\ input \in {"r", "rotate", "shift+r", "fine"} => ghostBlockYRotation = 0

GhostKey == \E key \in GhostKeys : GhostInputAllowed(key) /\ HandleGhostKey(key)

GhostButton ==
  \E button \in GhostButtons :
    GhostInputAllowed(button) /\ HandleMobileBlockControl(button)

GhostNext == Tick \/ LifecyclePlace \/ TimerFire \/ Commit \/ GhostKey \/ GhostButton

GhostSpec == CameraInit /\ [][GhostNext]_vars

\* the ghost turned through a full turn: the rotate key and button, and the
\* fine ones over the last coarse step before the full turn; no input once
\* the yaw has wrapped
TurnAllowed(input) ==
  /\ ghostBlockYRotation % GHOST_BLOCK_ROTATION_STEP
       \in {0, GHOST_BLOCK_FINE_ROTATION_STEP, 2 * GHOST_BLOCK_FINE_ROTATION_STEP}
  /\ input \in {"shift+r", "fine"} =>
       ghostBlockYRotation + GHOST_BLOCK_ROTATION_STEP >= 2 * PI

TurnKey ==
  \E key \in {"r", "shift+r"} : TurnAllowed(key) /\ HandleGhostKey(key)

TurnButton ==
  \E button \in {"rotate", "fine"} :
    TurnAllowed(button) /\ HandleMobileBlockControl(button)

TurnNext == TurnKey \/ TurnButton \/ Commit

TurnSpec == Init /\ [][TurnNext]_vars

-----------------------------------------------------------------------------
(* Claims about the tick and the placement *)

\* C1: within one game onGameOver is invoked at most once, whatever the
\* interleaving of ticks with the propagation of isGameOver into the scene.
C1_GameOverFiresOnce == gameOverCalls <= 1

\* C7: the tipped-over condition is never true in a tick with fewer than two
\* placed blocks, whatever the orientation of the block.
C7_NoTipOverBelowTwoBlocks ==
  anyBlockTippedOverGameEnd => Len(physicsObjectsRef) >= 2

\* a tick has seen a single block tilted past the tip-over threshold and the
\* game goes on
C7_Witness ==
  /\ Len(physicsObjectsRef) = 1
  /\ physicsObjectsRef[1].dot < FALLEN_BLOCK_DOT_THRESHOLD
  /\ physicsObjectsRef[1].y >= GAME_OVER_FALL_THRESHOLD_Y
  /\ ~anyBlockTippedOverGameEnd
  /\ ~lastTickFired
  /\ ~isGameOver

\* C8: a block below GAME_OVER_FALL_THRESHOLD_Y in a tick of an active game
\* makes that tick invoke onGameOver, whatever its tilt and however many
\* blocks are placed.  (Bodies are created above the ground, so a body below
\* the threshold was put there by the physics step of the last tick.)
C8_FallTriggersGameOver ==
  (\E i \in 1..Len(physicsObjectsRef) :
      physicsObjectsRef[i].y < GAME_OVER_FALL_THRESHOLD_Y)
  => (anyBlockFallenOffWorld /\ lastTickFired /\ isGameOver)

\* a single, upright block has fallen off the world and the tick fired
C8_Witness ==
  /\ Len(physicsObjectsRef) = 1
  /\ physicsObjectsRef[1].y < GAME_OVER_FALL_THRESHOLD_Y
  /\ physicsObjectsRef[1].dot >= TOWER_INSTABILITY_WARNING_DOT_THRESHOLD
  /\ lastTickFired

\* C9: the value passed to onGameOver is non-negative and at least every score
\* published by onScoreUpdate up to that tick of the same game.
C9_FinalScoreIsBestHeight ==
  lastFinalScore # -1 =>
     /\ lastFinalScore >= 0
     /\ lastFinalScore >= maxPublishedAtGameOver

\* onGameOver got a height above the tower height of the terminal tick
C9_Witness ==
  /\ lastTickFired
  /\ lastFinalScore > 0
  /\ lastFinalScore = maxPublishedAtGameOver
  /\ lastFinalScore > CurrentTowerHeightForScore(physicsObjectsRef)

\* C10: between a successful place() and the firing of its cooldown timer no
\* place() adds a block: a block is added only while no timer is pending.
C10_CooldownRejectsPlace ==
  [][Len(physicsObjectsRef') > Len(physicsObjectsRef) => cooldownTimers = 0]_vars

----------------------------------------------------------------------------
(* Claims about the camera *)

\* C2: the polar angle phi lies in [CAMERA_MIN_POLAR_ANGLE,
\* CAMERA_MAX_POLAR_ANGLE] initially and after any sequence of mouse drags,
\* one-finger touch orbits and camera presets.
C2_PolarAngleInRange ==
  /\ cameraStateRef.phi >= CAMERA_MIN_POLAR_ANGLE
  /\ cameraStateRef.phi <= CAMERA_MAX_POLAR_ANGLE

\* a one-finger orbit has been stopped at the upper limit
C2_Witness ==
  /\ touchStateRef.isOrbiting
  /\ touchStateRef.lastTouchY1 = 0
  /\ cameraStateRef.phi = CAMERA_MAX_POLAR_ANGLE

\* C3: the radius lies in [CAMERA_MIN_ZOOM_DISTANCE, CAMERA_MAX_ZOOM_DISTANCE]
\* initially and after any sequence of wheel, pinch and preset operations.
C3_ZoomDistanceInRange ==
  /\ cameraStateRef.radius >= CAMERA_MIN_ZOOM_DISTANCE
  /\ cameraStateRef.radius <= CAMERA_MAX_ZOOM_DISTANCE

\* a locked pinch has been stopped at the lower limit
C3_Witness ==
  /\ touchStateRef.isPinching
  /\ Len(touches) = 2
  /\ cameraStateRef.radius = CAMERA_MIN_ZOOM_DISTANCE

\* C4: a locked two-finger mode is sticky.  While the touch list keeps two
\* fingers (every such step is a touchmove) a locked pinch stays a pinch and
\* leaves lookAt alone, and a locked pan stays a pan and leaves radius alone.
C4_GestureLockIsSticky ==
  [][(Len(touches) = 2 /\ Len(touches') = 2) =>
       /\ touchStateRef.isPinching =>
            /\ touchStateRef'.isPinching
            /\ ~touchStateRef'.isP_anning
            /\ cameraStateRef'.lookAt = cameraStateRef.lookAt
       /\ touchStateRef.isP_anning =>
            /\ touchStateRef'.isP_anning
            /\ ~touchStateRef'.isPinching
            /\ cameraStateRef'.radius = cameraStateRef.radius]_vars

\* two fingers are down in a locked pinch that has zoomed, after an earlier
\* gesture has panned
C4_Witness ==
  /\ Len(touches) = 2
  /\ touchStateRef.isPinching
  /\ ~touchStateRef.isP_anning
  /\ cameraStateRef.radius # InitialCameraState.radius
  /\ cameraStateRef.lookAt # InitialCameraState.lookAt

\* C5: immediately after a touchstart that brings the touch list to two
\* fingers neither pinch nor pan is set.
C5_TwoFingerStartUndecided ==
  [][(Len(touches) < 2 /\ Len(touches') = 2) =>
       (~touchStateRef'.isPinching /\ ~touchStateRef'.isP_anning)]_vars

\* C6: in a gesture begun by a two-finger touchstart, a touchmove that keeps
\* the midpoint and changes the finger distance by more than the threshold
\* changes radius by the scaled, clamped distance change and leaves lookAt
\* alone.
C6_PinchZooms ==
  [][(/\ Len(touches) = 2 /\ Len(touches') = 2
      /\ touchStateRef.initialPinchDistance = PinchDistance(touches)
      /\ touchStateRef.initialPanMidX = PanMidX(touches)
      /\ touchStateRef.initialPanMidY = PanMidY(touches)
      /\ PanMidX(touches') = PanMidX(touches)
      /\ PanMidY(touches') = PanMidY(touches)
      /\ Abs(PinchDistance(touches') - PinchDistance(touches)) > pinchThreshold)
     =>
       /\ cameraStateRef'.radius =
            ClampZoomDistance(cameraStateRef.radius
               - (PinchDistance(touches') - PinchDistance(touches))
                 * CAMERA_ZOOM_SPEED * 15)
       /\ cameraStateRef'.lookAt = cameraStateRef.lookAt]_vars

----------------------------------------------------------------------------
(* Claims about the placement *)

\* C11: a place() made while the game is over (onGameOver has been invoked and
\* no restart followed) or while the scene is not ready is a no-op: no step
\* from such a state adds a block, invokes onBlockPlaced, clears the
\* cooldown flag or starts a cooldown timer.
C11_PlaceRejectedWhenOverOrNotReady ==
  [][(isGameOver \/ ~isSceneReadyRendered) =>
       /\ Len(physicsObjectsRef') = Len(physicsObjectsRef)
       /\ blockPlacedCalls' = blockPlacedCalls
       /\ (canAddBlock => canAddBlock')
       /\ cooldownTimers' <= cooldownTimers]_vars

\* C12: onBlockPlaced has been invoked as often as there are blocks in the
\* registry of the current game: every successful place() adds one block and
\* invokes it once.
C12_OnePlacedCallPerBlock == blockPlacedCalls = Len(physicsObjectsRef)

\* two blocks have been placed
C12_Witness == Len(physicsObjectsRef) = 2 /\ blockPlacedCalls = 2


----------------------------------------------------------------------------
(* Claims about the Stability Evaluator *)

\* the verdict the evaluator gives for the ghost of the current state
Verdict ==
  CalculatePlacementStability(ghostBlockRef, blockToPlaceRef,
                              ghostBlockXOffsetProxyRef, physicsObjectsRef)

\* the block the ghost is measured against, and the ghost's offsets from it
Target == physicsObjectsRef[HighestBlock(physicsObjectsRef)]
OffsetX == Abs(ghostBlockXOffsetProxyRef - Target.x)
OffsetZ == Abs(Target.z)

\* C13: with zero placed blocks the evaluator returns GREEN for every ghost
\* offset and every pending block definition, and the indicator is GREEN.
C13_EmptyTowerIsGreen ==
  Len(physicsObjectsRef) = 0 =>
     /\ Verdict = "GREEN"
     /\ stabilityIndicatorColor = "GREEN"

\* no block is placed and the ghost of a cylinder is far off the centre
C13_Witness ==
  /\ Len(physicsObjectsRef) = 0
  /\ ghostBlockRef.present
  /\ blockToPlaceRef = "CYLINDER_S"
  /\ ghostBlockXOffsetProxyRef = 140
  /\ stabilityIndicatorColor = "GREEN"

\* max(0, targetHalfExtent - ghostHalfExtent) + ghostHalfExtent * t, in
\* thousandths, t in tenths
C14_Allowance(targetHalfExtent, ghostHalfExtent, t) ==
  (IF targetHalfExtent > ghostHalfExtent THEN targetHalfExtent - ghostHalfExtent ELSE 0) * 10
    + ghostHalfExtent * t

\* both axis offsets (hundredths) are within the allowance of factor t
C14_BothWithin(t) ==
  /\ OffsetX * 10 <= C14_Allowance(DimensionsX(Target.definition),
                                   DimensionsX(blockToPlaceRef), t)
  /\ OffsetZ * 10 <= C14_Allowance(DimensionsZ(Target.definition),
                                   DimensionsZ(blockToPlaceRef), t)

\* C14: for a box ghost over a box, the verdict is GREEN iff both axis offsets
\* are within the green allowance (factor 0.4), YELLOW iff it is not GREEN and
\* both are within the yellow allowance (factor 0.8), RED otherwise; a ghost
\* of half-extent 0.5 over a box of half-extent 1 is RED at offset 1.3 and
\* GREEN at offset 0.
C14_BoxOnBoxVerdict ==
  /\ (/\ ghostBlockRef.present
      /\ Len(physicsObjectsRef) > 0
      /\ Shape(blockToPlaceRef) = "Box"
      /\ Shape(Target.definition) = "Box")
     => /\ Verdict = "GREEN"  <=> C14_BothWithin(4)
        /\ Verdict = "YELLOW" <=> (~C14_BothWithin(4) /\ C14_BothWithin(8))
        /\ Verdict = "RED"    <=> (~C14_BothWithin(4) /\ ~C14_BothWithin(8))
  /\ BoxVerdict("CUBE_S", "RECT_WIDE", 130, 0) = "RED"
  /\ BoxVerdict("CUBE_S", "RECT_WIDE", 0, 0) = "GREEN"

\* the ghost of a cube 1.3 off the centre of a wide box: the indicator is RED
C14_Witness ==
  /\ Len(physicsObjectsRef) = 1
  /\ blockToPlaceRef = "CUBE_S"
  /\ Target.definition = "RECT_WIDE"
  /\ OffsetX = 130
  /\ OffsetZ = 0
  /\ stabilityIndicatorColor = "RED"

\* sqrt(offsetX^2 + offsetZ^2) is within max(0, targetRadius - ghostRadius)
\* + ghostRadius * t, the radii being dimensions.x; both sides are not
\* negative and are compared by their squares, in thousandths
C15_RadiallyWithin(t) ==
  LET allowance == C14_Allowance(DimensionsX(Target.definition),
                                 DimensionsX(blockToPlaceRef), t)
  IN (OffsetX * 10) * (OffsetX * 10) + (OffsetZ * 10) * (OffsetZ * 10)
       <= allowance * allowance

\* C15: when the ghost or the block it is measured against is a cylinder, the
\* verdict is GREEN when the radial distance is within the green allowance
\* (factor 0.3), YELLOW when it is within the yellow allowance (factor 0.7)
\* only, RED otherwise.
C15_CylinderVerdict ==
  (/\ ghostBlockRef.present
   /\ Len(physicsObjectsRef) > 0
   /\ (Shape(blockToPlaceRef) = "Cylinder" \/ Shape(Target.definition) = "Cylinder"))
  => Verdict = IF C15_RadiallyWithin(3) THEN "GREEN"
               ELSE IF C15_RadiallyWithin(7) THEN "YELLOW"
               ELSE "RED"

\* the ghost of a cylinder 0.2 off the axis of a cylinder: the indicator is
\* YELLOW
C15_Witness ==
  /\ Len(physicsObjectsRef) = 1
  /\ blockToPlaceRef = "CYLINDER_S"
  /\ Target.definition = "CYLINDER_S"
  /\ OffsetX = 20
  /\ OffsetZ = 0
  /\ stabilityIndicatorColor = "YELLOW"

\* the ghost and the block it is measured against are a box and a cylinder
MixedPair ==
  /\ ghostBlockRef.present
  /\ Len(physicsObjectsRef) > 0
  /\ Shape(blockToPlaceRef) # Shape(Target.definition)

\* C16, as stated: for a mixed box/cylinder pair the evaluator returns the
\* fixed fallback verdict YELLOW.
C16_MixedPairIsYellow == MixedPair => Verdict = "YELLOW"

\* C16, amended: for a mixed box/cylinder pair the verdict is computed by the
\* radial rule; it is GREEN for a centred ghost and RED for a ghost 1.3 or
\* more off the centre.
C16_MixedPairIsComputed ==
  MixedPair =>
     /\ Verdict = IF C15_RadiallyWithin(3) THEN "GREEN"
                  ELSE IF C15_RadiallyWithin(7) THEN "YELLOW"
                  ELSE "RED"
     /\ (OffsetX = 0 /\ OffsetZ = 0) => Verdict = "GREEN"
     /\ OffsetX >= 130 => Verdict = "RED"

\* the ghost of a cube far off the axis of a cylinder: the indicator is RED
C16_Witness ==
  /\ Len(physicsObjectsRef) = 1
  /\ blockToPlaceRef = "CUBE_S"
  /\ Target.definition = "CYLINDER_S"
  /\ OffsetX = 140
  /\ stabilityIndicatorColor = "RED"


----------------------------------------------------------------------------
(* Claims about the Tower Health Monitor *)

\* the blocks the last tick has left with an up-vector dot of 0.9.  (Bodies
\* are created upright, so a tilted body was tilted by the physics step of
\* the last tick; isGameOverRef is not cleared within a game, so that tick
\* ran in an active game if isGameOverRef is still unset.)
BlocksAtDot900 == {i \in 1..Len(physicsObjectsRef) : physicsObjectsRef[i].dot = 900}

\* no block is below the fall threshold or past the tip-over threshold
NoTerminalBlock ==
  \A i \in 1..Len(physicsObjectsRef) :
     /\ physicsObjectsRef[i].y >= GAME_OVER_FALL_THRESHOLD_Y
     /\ physicsObjectsRef[i].dot >= FALLEN_BLOCK_DOT_THRESHOLD

\* C17, as stated: a block whose up-vector dot is 0.9 in a tick of an active
\* game is counted in the warning count of that tick and does not trigger
\* game-over.
C17_Dot900CountsAsWarning ==
  (~isGameOverRef /\ BlocksAtDot900 # {}) =>
     /\ unstableBlockCountForWarning >= Cardinality(BlocksAtDot900)
     /\ NoTerminalBlock => ~lastTickFired

\* C17, amended: a block whose up-vector dot is 0.9 in a tick of an active
\* game is not counted in the warning count of that tick (the count is that
\* of the blocks with a dot below 0.866) and does not trigger game-over.
C17_Dot900IsNoWarning ==
  (~isGameOverRef /\ BlocksAtDot900 # {}) =>
     /\ unstableBlockCountForWarning =
          Cardinality({i \in 1..Len(physicsObjectsRef) :
                         physicsObjectsRef[i].dot < 866})
     /\ NoTerminalBlock => ~lastTickFired

\* a tick of an active game has seen one block at 0.9 and one at 0.7: the
\* warning count is 1 and the game goes on
C17_Witness ==
  /\ ~isGameOverRef
  /\ ~isGameOver
  /\ Len(physicsObjectsRef) = 2
  /\ physicsObjectsRef[1].dot = 900
  /\ physicsObjectsRef[2].dot = 700
  /\ unstableBlockCountForWarning = 1
  /\ ~lastTickFired


----------------------------------------------------------------------------
(* Claims about the game over and the restart *)

\* C18: once the game is over it stays over until the host restarts it: the
\* only step that takes isGameOver from TRUE to FALSE is handleRestart, which
\* also advances gameKey and clears the score; no tick, placement, timer,
\* render, ghost key or mouse input does.
C18_GameOverUntilRestart ==
  [][(isGameOver /\ ~isGameOver') =>
        (gameKey' = gameKey + 1 /\ currentScore' = 0)]_vars

\* the second game is over, with its block placed and the mouse button held
C18_Witness ==
  /\ isGameOver
  /\ isGameOverRef
  /\ gameKey = 1
  /\ mountedKey = 1
  /\ Len(physicsObjectsRef) = 1
  /\ cameraStateRef.isDragging


----------------------------------------------------------------------------
(* Claims about the camera, continued *)

\* C21: the state "mouse dragging and touch interacting" is never reached,
\* and while a touch interaction is in progress a mouse-down, a mouse-move or
\* a wheel event changes none of phi, theta and radius.
C21_TouchExcludesMouse ==
  /\ [](~(cameraStateRef.isDragging /\ touchStateRef.isInteracting))
  /\ [][(touchStateRef.isInteracting /\ (MouseDown \/ MouseMove \/ Wheel)) =>
          /\ cameraStateRef'.phi = cameraStateRef.phi
          /\ cameraStateRef'.theta = cameraStateRef.theta
          /\ cameraStateRef'.radius = cameraStateRef.radius]_vars

\* a finger is down after the mouse has dragged and the wheel has zoomed: the
\* drag has been ended by the touch
C21_Witness ==
  /\ touchStateRef.isInteracting
  /\ ~cameraStateRef.isDragging
  /\ cameraStateRef.lastMouseX = 60
  /\ cameraStateRef.theta # InitialCameraState.theta
  /\ cameraStateRef.radius # InitialCameraState.radius


\* C22: a touch-end that leaves no finger clears isInteracting, isOrbiting,
\* isPinching and isP_anning; a touch-end that leaves one finger enters the
\* one-finger orbit with that finger's position as the reference, and a
\* touch-move of one orbiting finger that stays where it is changes neither
\* phi nor theta.
C22_TouchEndResetsOrReorbits ==
  [][/\ (Len(touches') < Len(touches) /\ Len(touches') = 0)
          => /\ ~touchStateRef'.isInteracting
             /\ ~touchStateRef'.isOrbiting
             /\ ~touchStateRef'.isPinching
             /\ ~touchStateRef'.isP_anning
     /\ (Len(touches') < Len(touches) /\ Len(touches') = 1)
          => /\ touchStateRef'.isOrbiting
             /\ ~touchStateRef'.isPinching
             /\ ~touchStateRef'.isP_anning
             /\ touchStateRef'.lastTouchX1 = touches'[1].clientX
             /\ touchStateRef'.lastTouchY1 = touches'[1].clientY
     /\ (Len(touches) = 1 /\ touchStateRef.isOrbiting /\ HandleTouchMove(touches))
          => /\ cameraStateRef'.phi = cameraStateRef.phi
             /\ cameraStateRef'.theta = cameraStateRef.theta]_vars

\* one finger has been lifted from a two-finger gesture whose first finger
\* was elsewhere: the finger left is the reference of the orbit
C22_Witness ==
  /\ Len(touches) = 1
  /\ touchStateRef.isInteracting
  /\ touchStateRef.isOrbiting
  /\ ~touchStateRef.isP_anning
  /\ touchStateRef.initialPinchDistance > 0
  /\ touches[1].clientX = 80
  /\ touchStateRef.lastTouchX1 = 80

----------------------------------------------------------------------------
(* Claims about the Body Registry and the restart *)

\* C23: while one instance of the scene is mounted the registry only grows:
\* no step shortens it or puts another block in the place of an entry (the
\* physics moves the entries); it gets shorter only by the teardown of the
\* instance, which empties it.
C23_RegistryOnlyGrows ==
  [][/\ mountedKey' = mountedKey
          => /\ Len(physicsObjectsRef') >= Len(physicsObjectsRef)
             /\ \A i \in 1..Len(physicsObjectsRef) :
                   /\ physicsObjectsRef'[i].definition = physicsObjectsRef[i].definition
                   /\ physicsObjectsRef'[i].x = physicsObjectsRef[i].x
                   /\ physicsObjectsRef'[i].yaw = physicsObjectsRef[i].yaw
     /\ Len(physicsObjectsRef') < Len(physicsObjectsRef)
          => (mountedKey' # mountedKey /\ physicsObjectsRef' = <<>>)]_vars

\* the block of the second game has fallen below the world: the registry of
\* the first game was emptied by the teardown and the fallen block is kept
C23_Witness ==
  /\ gameKey = 1
  /\ mountedKey = 1
  /\ Len(physicsObjectsRef) = 1
  /\ physicsObjectsRef[1].y < GAME_OVER_FALL_THRESHOLD_Y
  /\ isGameOver


\* C24: the instance mounted after the host's restart starts a game that is
\* playing, with an empty registry, best height 0, score 0, the ghost at
\* offset 0 and rotation 0 and the initial camera state; the bodies of the
\* previous game are gone and the tick loop is not yet running.
C24_RestartIsFullReset ==
  [][mountedKey' # mountedKey =>
        /\ ~isGameOver'
        /\ currentScore' = 0
        /\ physicsObjectsRef' = <<>>
        /\ maxAchievedHeightInGameRef' = 0
        /\ ghostBlockXOffset' = 0
        /\ ghostBlockYRotation' = 0
        /\ ghostBlockXOffsetProxyRef' = 0
        /\ ghostBlockYRotationProxyRef' = 0
        /\ cameraStateRef' = InitialCameraState
        /\ ~animationFrameIdRef']_vars


\* a step in which place() succeeded, and the body it created
PlaceSucceeded ==
  /\ mountedKey' = mountedKey
  /\ Len(physicsObjectsRef') = Len(physicsObjectsRef) + 1

\* C25: a successful place() resets the ghost's lateral offset and rotation to
\* 0 for the next block, and only the body it created carries the offset and
\* rotation from before the reset: a block placed while the ghost's offset and
\* rotation are neutral is created at offset 0 with rotation 0.
C25_PlaceResetsGhost ==
  [][PlaceSucceeded =>
        /\ ghostBlockXOffset' = 0
        /\ ghostBlockYRotation' = 0
        /\ (ghostBlockXOffset = 0 /\ ghostBlockYRotation = 0) =>
             /\ physicsObjectsRef'[Len(physicsObjectsRef')].x = 0
             /\ physicsObjectsRef'[Len(physicsObjectsRef')].yaw = 0]_vars


\* the camera values preset p is expected to leave, given the tallest-point
\* value and whether the registry holds a block
C26_Expected(p, highest, hasBlocks) ==
  CASE p = "front" -> [phi |-> 125664, theta |-> 157080, radius |-> 12000,
                       lookAt |-> [x |-> 0, y |-> 4 * highest, z |-> 0]]
    [] p = "top"   -> [phi |-> 8727, theta |-> 0, radius |-> 18000,
                       lookAt |-> [x |-> 0,
                                   y |-> IF hasBlocks THEN 5 * highest ELSE 1000,
                                   z |-> 0]]
    [] p = "side"  -> [phi |-> 125664, theta |-> 0, radius |-> 12000,
                       lookAt |-> [x |-> 0, y |-> 4 * highest, z |-> 0]]

C26_Orientation(cs) ==
  [phi |-> cs.phi, theta |-> cs.theta, radius |-> cs.radius, lookAt |-> cs.lookAt]

\* C26: a preset overwrites phi, theta, radius and lookAt whatever the camera
\* state was before, lookAt.y being derived from the current tallest-point
\* value; applied to a camera that already shows the preset over the same
\* tower it leaves the camera state as it is.
C26_PresetOverwrites ==
  [][\A p \in CameraPresets :
       SetCameraPreset(p) =>
         LET expected == C26_Expected(p, currentHighestBlockYRef,
                                      Len(physicsObjectsRef) > 0)
         IN /\ C26_Orientation(cameraStateRef') = expected
            /\ C26_Orientation(cameraStateRef) = expected
                 => cameraStateRef' = cameraStateRef]_vars

\* the camera shows the front preset over a block whose top is above the
\* ground: lookAt.y is 0.4 times the tallest-point value
C26_Witness ==
  /\ Len(physicsObjectsRef) > 0
  /\ currentHighestBlockYRef > 0
  /\ C26_Orientation(cameraStateRef) =
       C26_Expected("front", currentHighestBlockYRef, TRUE)


\* the box of half extents 0.5 that stands in for an unknown shape kind
C27_DefaultBox ==
  [kind |-> "Box", halfExtentsX |-> 50, halfExtentsY |-> 50, halfExtentsZ |-> 50]

C27_IsMalformed(def) == Shape(def) \notin {"Box", "Cylinder"}

\* C27: shape creation is total: every definition, the malformed one
\* included, gets a box or a cylinder, and a definition whose shape kind is
\* neither gets the default box (the unit box as its geometry); place() of
\* such a definition pushes its body and the frames after it keep the loop
\* running.
C27_ShapeCreationFailsClosed ==
  /\ [](\A i \in 1..Len(physicsObjectsRef) :
          /\ physicsObjectsRef[i].shape.kind \in {"Box", "Cylinder"}
          /\ C27_IsMalformed(physicsObjectsRef[i].definition) =>
               /\ physicsObjectsRef[i].shape = C27_DefaultBox
               /\ CreateThreeGeometry(physicsObjectsRef[i].definition) =
                    [kind |-> "BoxGeometry", width |-> 100, height |-> 100,
                     depth |-> 100])
  /\ [][/\ (Place /\ CanPlace) => PlaceSucceeded
        /\ (/\ Tick
            /\ animationFrameIdRef
            /\ \E i \in 1..Len(physicsObjectsRef) :
                 C27_IsMalformed(physicsObjectsRef[i].definition))
             => animationFrameIdRef']_vars

\* the malformed definition was placed with the default box, a second block
\* was placed on it and a frame has run since
C27_Witness ==
  /\ Len(physicsObjectsRef) = 2
  /\ C27_IsMalformed(physicsObjectsRef[1].definition)
  /\ physicsObjectsRef[1].shape = C27_DefaultBox
  /\ lastTickFired
  /\ animationFrameIdRef


\* C28: the body created by a successful place() is at the tallest top of
\* the blocks in the registry at that moment (the ground level if there is
\* none) plus the half height of the placed definition plus the clearance.
C28_SpawnHeight ==
  [][PlaceSucceeded =>
       LET body == physicsObjectsRef'[Len(physicsObjectsRef')]
           tops == {physicsObjectsRef[i].y + DimensionsY(physicsObjectsRef[i].definition) :
                      i \in 1..Len(physicsObjectsRef)}
       IN body.y = SetMax({GROUND_LEVEL} \cup tops) + DimensionsY(body.definition)
                     + BLOCK_SPAWN_HEIGHT_OFFSET]_vars


\* C29: the body created by a successful place() has the lateral offset and
\* the rotation that the ghost state holds after all move and rotate inputs
\* issued before the call.
C29_NoInputLost ==
  [][PlaceSucceeded =>
       LET body == physicsObjectsRef'[Len(physicsObjectsRef')]
       IN /\ body.x = ghostBlockXOffset
          /\ body.yaw = ghostBlockYRotation]_vars


\* C30: the block the Stability Evaluator measures the ghost against is the
\* block whose top (position.y + half height) is the tallest point of the
\* tower, the one the ghost's resting height of that frame is computed from.
C30_TargetIsTallest ==
  Len(physicsObjectsRef) > 0 =>
    /\ TopOfBlock(Target) = currentHighestBlockYRef
    /\ ghostBlockRef.y = TopOfBlock(Target) + DimensionsY(blockToPlaceRef)
                           + BLOCK_SPAWN_HEIGHT_OFFSET


\* C31: in every tick of an active game in which a block triggers
\* tipped-over the warning count of that tick is at least 1, every block
\* below the tip-over threshold being below the warning threshold too; and
\* some tilt the physics step can leave is below the warning threshold
\* without being below the tip-over threshold.
C31_TipOverImpliesWarning ==
  /\ anyBlockTippedOverGameEnd => unstableBlockCountForWarning >= 1
  /\ (lastTickFired /\ anyBlockTippedOverGameEnd) =>
       unstableBlockCountForWarning >=
         Cardinality({i \in 1..Len(physicsObjectsRef) :
                        physicsObjectsRef[i].dot < FALLEN_BLOCK_DOT_THRESHOLD})
  /\ \E d \in Dots :
       /\ d < TOWER_INSTABILITY_WARNING_DOT_THRESHOLD
       /\ d >= FALLEN_BLOCK_DOT_THRESHOLD

\* a tick of an active game found one of two blocks tipped over: the game
\* ends and that block is counted in the warning
C31_Witness ==
  /\ lastTickFired
  /\ anyBlockTippedOverGameEnd
  /\ ~anyBlockFallenOffWorld
  /\ Len(physicsObjectsRef) = 2
  /\ physicsObjectsRef[1].dot = 300
  /\ physicsObjectsRef[2].dot = 900
  /\ unstableBlockCountForWarning = 1


\* C32: once the game over has reached the scene (isGameOverRef is set) no
\* frame request is pending, so until the restart no physics step moves a
\* body, no score is published and onGameOver is not invoked; and at any
\* time at most one frame request is pending.
C32_LoopStopsAtGameOver ==
  /\ [](pendingAnimationFrames <= 1)
  /\ [](isGameOverRef => pendingAnimationFrames = 0)
  /\ [][(isGameOverRef /\ mountedKey' = mountedKey) =>
          /\ physicsObjectsRef' = physicsObjectsRef
          /\ gameOverCalls' = gameOverCalls
          /\ maxPublishedScore' = maxPublishedScore
          /\ lastFinalScore' = lastFinalScore
          /\ (currentScore' = currentScore \/ gameKey' # gameKey)]_vars

\* the game over of a fallen block has reached the scene: the request the
\* last frame made was cancelled and the ref cleared
C32_Witness ==
  /\ isGameOver
  /\ isGameOverRef
  /\ gameOverCalls >= 1
  /\ Len(physicsObjectsRef) = 1
  /\ ~animationFrameIdRef
  /\ pendingAnimationFrames = 0


\* the contact materials between the materials of blocks i and j
C33_Overrides(cms, i, j) ==
  {n \in 1..Len(cms) : {cms[n].a, cms[n].b} = {i, j}}

\* C33: the k-th successful place() of a game registers k contact
\* materials: one against the ground and one against each of the k-1 blocks
\* of the registry, with friction 0.9 times the smaller friction and
\* restitution 0.5 times the smaller restitution of the two definitions; at
\* any time every pair of placed blocks has exactly one contact material.
C33_PairwiseContactOverrides ==
  /\ [][PlaceSucceeded =>
          LET k   == Len(physicsObjectsRef')
              old == Len(contactMaterials)
              cms == contactMaterials'
              def == physicsObjectsRef'[k].definition
          IN /\ Len(cms) = old + k
             /\ SubSeq(cms, 1, old) = contactMaterials
             /\ Cardinality({n \in (old + 1)..Len(cms) : cms[n].a = 0 /\ cms[n].b = k}) = 1
             /\ \A i \in 1..(k - 1) :
                  /\ Cardinality(C33_Overrides(cms, i, k)) = 1
                  /\ \A n \in C33_Overrides(cms, i, k) :
                       /\ n > old
                       /\ 10 * cms[n].friction =
                            9 * Min(Friction(def), Friction(physicsObjectsRef[i].definition))
                       /\ 10 * cms[n].restitution =
                            5 * Min(Restitution(def),
                                    Restitution(physicsObjectsRef[i].definition))]_vars
  /\ [](\A i, j \in 1..Len(physicsObjectsRef) :
          i < j => Cardinality(C33_Overrides(contactMaterials, i, j)) = 1)

\* three blocks were placed, a cylinder among them: six contact materials,
\* three of them between blocks
C33_Witness ==
  /\ Len(physicsObjectsRef) = 3
  /\ Len(contactMaterials) = 6
  /\ physicsObjectsRef[1].definition = "RECT_TALL"
  /\ physicsObjectsRef[3].definition = "CYLINDER_S"
  /\ \E n \in 1..Len(contactMaterials) :
       contactMaterials[n] = [a |-> 1, b |-> 3, friction |-> 540, restitution |-> 25]


\* C34: at most one of the touch mode flags isOrbiting, isPinching and
\* isP_anning is set, after any touchstart, touchmove, touchend or
\* touchcancel with one, two or three fingers.
C34_OneTouchMode ==
  /\ ~(touchStateRef.isOrbiting /\ touchStateRef.isPinching)
  /\ ~(touchStateRef.isOrbiting /\ touchStateRef.isP_anning)
  /\ ~(touchStateRef.isPinching /\ touchStateRef.isP_anning)


\* GREEN is the best verdict, RED the worst
C35_Rank(verdict) ==
  CASE verdict = "GREEN"  -> 0
    [] verdict = "YELLOW" -> 1
    [] OTHER              -> 2

\* the offsets from the top block are increased by up to four steps of the
\* ghost
C35_Steps == 0..3

\* the verdict for the ghost of the current state at the offsets offsetX and
\* offsetZ from the block target
C35_VerdictAt(target, offsetX, offsetZ) ==
  PairVerdict(blockToPlaceRef, target.x + offsetX, [target EXCEPT !.z = offsetZ])

\* C35: for fixed ghost and top block definitions, a ghost further from the
\* top block on both axes never gets a better verdict (GREEN < YELLOW < RED),
\* the verdict shown being the one for no increase; and the green allowance
\* never exceeds the yellow allowance, for boxes and for cylinders.
C35_VerdictMonotone ==
  /\ \A g, t \in BlockShapeType :
       /\ EffectiveAllowedOffset(DimensionsX(t), DimensionsX(g),
                                 PLACEMENT_STABILITY_GREEN_THRESHOLD_BOX)
            <= EffectiveAllowedOffset(DimensionsX(t), DimensionsX(g),
                                      PLACEMENT_STABILITY_YELLOW_THRESHOLD_BOX)
       /\ EffectiveAllowedOffset(DimensionsZ(t), DimensionsZ(g),
                                 PLACEMENT_STABILITY_GREEN_THRESHOLD_BOX)
            <= EffectiveAllowedOffset(DimensionsZ(t), DimensionsZ(g),
                                      PLACEMENT_STABILITY_YELLOW_THRESHOLD_BOX)
       /\ EffectiveAllowedOffset(DimensionsX(t), DimensionsX(g),
                                 PLACEMENT_STABILITY_GREEN_THRESHOLD_CYLINDER)
            <= EffectiveAllowedOffset(DimensionsX(t), DimensionsX(g),
                                      PLACEMENT_STABILITY_YELLOW_THRESHOLD_CYLINDER)
  /\ (ghostBlockRef.present /\ Len(physicsObjectsRef) > 0) =>
       LET target == Target
           x == OffsetX
           z == OffsetZ
           step == GHOST_BLOCK_X_MOVEMENT_STEP
       IN /\ C35_VerdictAt(target, x, z) = Verdict
          /\ \A i, j \in C35_Steps :
               LET here == C35_Rank(C35_VerdictAt(target, x + step * i, z + step * j))
               IN /\ here <= C35_Rank(C35_VerdictAt(target, x + step * (i + 1),
                                                    z + step * j))
                  /\ here <= C35_Rank(C35_VerdictAt(target, x + step * i,
                                                    z + step * (j + 1)))

\* the indicator shows the YELLOW verdict of a ghost beside the top block,
\* the same ghost one step further along x is still YELLOW and yet further
\* it is RED
C35_Witness ==
  /\ ghostBlockRef.present /\ Len(physicsObjectsRef) > 0
  /\ stabilityIndicatorColor = "YELLOW" /\ Verdict = "YELLOW"
  /\ OffsetX > 0
  /\ C35_VerdictAt(Target, OffsetX + GHOST_BLOCK_X_MOVEMENT_STEP, OffsetZ) = "YELLOW"
  /\ \E i \in C35_Steps :
       C35_VerdictAt(Target, OffsetX + GHOST_BLOCK_X_MOVEMENT_STEP * (i + 1), OffsetZ) = "RED"


\* what an accepted ghost input does: one step sideways or one (fine) step of
\* yaw modulo a full turn, and nothing but the ghost changes
C36_Accepted(input) ==
  /\ ghostBlockXOffset' =
       CASE input \in {"arrowleft", "left"} ->
              ghostBlockXOffset - GHOST_BLOCK_X_MOVEMENT_STEP
         [] input \in {"arrowright", "right"} ->
              ghostBlockXOffset + GHOST_BLOCK_X_MOVEMENT_STEP
         [] OTHER -> ghostBlockXOffset
  /\ ghostBlockYRotation' =
       CASE input \in {"r", "rotate"} ->
              (ghostBlockYRotation + GHOST_BLOCK_ROTATION_STEP) % (2 * PI)
         [] input \in {"shift+r", "fine"} ->
              (ghostBlockYRotation + GHOST_BLOCK_FINE_ROTATION_STEP) % (2 * PI)
         [] OTHER -> ghostBlockYRotation
  /\ UNCHANGED <<physicsObjectsRef, contactMaterials, blockPlacedCalls,
                 gameOverCalls, currentScore, isGameOver, canAddBlock,
                 cooldownTimers, ghostBlockRef, stabilityIndicatorColor,
                 cameraVars>>

C36_Ignored == UNCHANGED <<ghostBlockXOffset, ghostBlockYRotation, physicsObjectsRef>>

\* a key or button either is ignored or has the effect of its input
C36_InputsMoveGhost ==
  /\ \A key \in GhostKeys : HandleGhostKey(key) => (C36_Ignored \/ C36_Accepted(key))
  /\ \A button \in GhostButtons :
       HandleMobileBlockControl(button) => C36_Accepted(button)

\* the yaw of the ghost is in [0, 2*pi)
C36_YawInRange == 0 <= ghostBlockYRotation /\ ghostBlockYRotation < 2 * PI

\* while the game is over or the scene is not ready, the move and rotate keys
\* leave the ghost and the registry alone and no block is placed
C36_IgnoredWhenOver ==
  (isGameOver \/ ~isSceneReady \/ ~isSceneReadyRendered) =>
    /\ \A key \in GhostKeys : HandleGhostKey(key) => C36_Ignored
    /\ ~PlaceSucceeded

\* C36: a move-left/right input changes the ghost's lateral offset by exactly
\* one step and a rotate input adds the coarse or fine step modulo a full
\* turn, nothing but the ghost changing; the yaw stays in [0, 2*pi); and
\* while the game is over or the scene is not ready the keyboard's move,
\* rotate and commit inputs change neither the ghost nor the registry.
C36_GhostInputs ==
  /\ [][C36_InputsMoveGhost /\ C36_IgnoredWhenOver]_vars
  /\ []C36_YawInRange


\* C37: a successful placement makes the block to place the block that the
\* next-block preview showed when the block was placed (the preview of the
\* last render, which is never absent then) and draws a new preview; and the
\* block handed to the scene, and the one the scene places, is never absent.
C37_PreviewBecomesBlockToPlace ==
  /\ [][PlaceSucceeded =>
          /\ nextBlockDefinitionClosure # "null"
          /\ selectedBlockDefinition' = nextBlockDefinitionClosure
          /\ nextBlockDefinition' \in GetRandomBlockDefinition]_vars
  /\ [](/\ selectedBlockDefinition \in GetRandomBlockDefinition
        /\ blockToPlaceRef \in GetRandomBlockDefinition)

\* two blocks were placed before the host rendered again: the block to place
\* is the preview that was on show, the scene still holds the block it placed
\* and the preview drawn is another one
C37_Witness ==
  /\ Len(physicsObjectsRef) = 2 /\ blockPlacedCalls = 2
  /\ ~isGameOver
  /\ selectedBlockDefinition = nextBlockDefinitionClosure
  /\ blockToPlaceRef # selectedBlockDefinition
  /\ physicsObjectsRef[1].definition = blockToPlaceRef
  /\ physicsObjectsRef[2].definition = blockToPlaceRef
  /\ nextBlockDefinition # nextBlockDefinitionClosure

=============================================================================
